---------------------------- MODULE Spec2Model ----------------------------
(***************************************************************************)
(* A model of the jack_compiler front end: the symbol table                *)
(* (src/src/parser.rs), the token stream (src/src/tokenizer.rs), the       *)
(* recursive-descent parser (src/src/parser.rs) and the VM code generator  *)
(* (src/src/writer.rs).                                                    *)
(*                                                                         *)
(* Conventions.  Option<T> is a sequence: None == <<>>, Some(x) == <<x>>.  *)
(* A function that can panic returns a record with a field ok; ok = FALSE  *)
(* is the panic, and every caller passes it on unchanged.  A line of VM    *)
(* text is the tuple of its blank-separated words, each the string that    *)
(* format!() writes: "push argument 1" is <<"push", "argument", "1">>,     *)
(* "label WHILE_EXP3" is <<"label", "WHILE_EXP3">>, "call Point.sum 2" is  *)
(* <<"call", "Point.sum", "2">>.                                           *)
(***************************************************************************)
EXTENDS Integers, Sequences, FiniteSets, TLC

VARIABLES
    stream,         \* the Tokenizer: [tokens, cursor]
    pc,             \* where the compilation of the class stands
    root,           \* ClassNode::build: the class node built so far
    p_symbol_table, \* ClassNode::build: its symbol_table, the class table
    writer,         \* the VmWriter
    code,           \* VmWriter::build_class: result, the lines emitted so far
    w_next_item,    \* VmWriter::build_class: next_item
    st_table,   \* SpecST: the symbol table under test
    st_before,  \* SpecST: st_table as the last call found it
    st_op,      \* SpecST: the last call made on st_table
    st_ok,      \* SpecST: FALSE once a call has panicked
    st_cloned,  \* SpecST: TRUE once st_table is a clone
    lex_code,       \* SpecLex: the text given to Tokenizer::new, its chars
    lex_pc,         \* SpecLex: where the construction of the Tokenizer stands
    lex_i,          \* process_code: the number of chars the loop has taken
    lex_scan,       \* process_code: start_token_position, current_type, result
    lex_tokenizer,  \* SpecLex: the Tokenizer, once constructed
    lex_ret,        \* SpecLex: the last call on lex_tokenizer and its result
    file_content,   \* parse_file: content, the chars of the source file
    file_pc,        \* parse_file: where the processing of the file stands
    clean_code,     \* parse_file: clean_code
    file_tokenizer, \* parse_file: tokenizer
    file_root,      \* parse_file: root
    written         \* the names of the files fs::write has written

None == <<>>
Some(x) == <<x>>

(***************************************************************************)
(* Bounds of the model.                                                    *)
(***************************************************************************)
MaxSymbols == 3     \* SpecST: symbols in the table
MaxFields == 2      \* fields a class declares
MaxParams == 2      \* parameters a subroutine declares
MaxLocals == 2      \* local variables a subroutine declares
MaxArgs == 2        \* arguments of a call
MaxStmts == 3       \* statements, nested ones included, in a generated body
MaxOps == 2         \* binary operators of a generated expression
MaxCode == 4        \* SpecLex: chars of a text over Alphabet
MaxDigits == 5      \* SpecLex: chars of a text of digits
MaxLines == 3       \* SpecFile: lines of a source file

(***************************************************************************)
(* parser.rs: SymbolType, SymbolItem, SymbolTable                          *)
(***************************************************************************)
SymbolType == {"Field", "StaticType", "Local", "Argument"}

SymbolItem_new(id, name, symbol_type, kind, position) ==
    [id |-> id, name |-> name, symbol_type |-> symbol_type, kind |-> kind,
     position |-> position]

get_type_as_str(symbol) ==
    CASE symbol.symbol_type = "Argument" -> "argument"
      [] symbol.symbol_type = "Field" -> "field"
      [] symbol.symbol_type = "Local" -> "local"
      [] symbol.symbol_type = "StaticType" -> "static"

get_position(symbol) == symbol.position

SymbolTable_new ==
    [symbols |-> <<>>,
     indexes |-> [n \in {} |-> 0],
     types |-> [t \in SymbolType |-> 0]]

SymbolTable_clone(self) ==
    [symbols |-> self.symbols, indexes |-> self.indexes, types |-> self.types]

\* The match at the head of add: the category a descriptor names, None for
\* the descriptors that panic with "Invalid symbol type".
add_symbol_type(symbol_type) ==
    CASE symbol_type = "field" -> Some("Field")
      [] symbol_type = "static" -> Some("StaticType")
      [] symbol_type = "var" -> Some("Local")
      [] symbol_type = "argument" -> Some("Argument")
      [] OTHER -> None

\* add with the symbol's id as its position: one counter for all categories
SymbolTable_add_one_counter(self, symbol_type, kind, name) ==
    LET ty == add_symbol_type(symbol_type) IN
    IF ty = None THEN [ok |-> FALSE, st |-> self]
    ELSE IF name \in DOMAIN self.indexes THEN [ok |-> FALSE, st |-> self]
    ELSE
        LET t == ty[1]
            id == Len(self.symbols)
        IN  [ok |-> TRUE,
             st |-> [symbols |-> Append(self.symbols,
                                        SymbolItem_new(id, name, t, kind, id)),
                     indexes |-> [n \in DOMAIN self.indexes \cup {name} |->
                                    IF n = name THEN id ELSE self.indexes[n]],
                     types |-> [self.types EXCEPT ![t] = id + 1]]]

\* add without the contains_key test: the HashMap insert replaces the index
SymbolTable_add_unchecked(self, symbol_type, kind, name) ==
    LET ty == add_symbol_type(symbol_type) IN
    IF ty = None THEN [ok |-> FALSE, st |-> self]
    ELSE
        LET t == ty[1]
            position == self.types[t]
            id == Len(self.symbols)
        IN  [ok |-> TRUE,
             st |-> [symbols |-> Append(self.symbols,
                                        SymbolItem_new(id, name, t, kind, position)),
                     indexes |-> [n \in DOMAIN self.indexes \cup {name} |->
                                    IF n = name THEN id ELSE self.indexes[n]],
                     types |-> [self.types EXCEPT ![t] = position + 1]]]

\* add: [ok, st]; on a panic st is the table as it was when the panic was raised.
SymbolTable_add(self, symbol_type, kind, name) ==
    LET ty == add_symbol_type(symbol_type) IN
    IF ty = None THEN [ok |-> FALSE, st |-> self]
    ELSE IF name \in DOMAIN self.indexes THEN [ok |-> FALSE, st |-> self]
    ELSE
        LET t == ty[1]
            position == self.types[t]
            id == Len(self.symbols)
        IN  [ok |-> TRUE,
             st |-> [symbols |-> Append(self.symbols,
                                        SymbolItem_new(id, name, t, kind, position)),
                     indexes |-> [n \in DOMAIN self.indexes \cup {name} |->
                                    IF n = name THEN id ELSE self.indexes[n]],
                     types |-> [self.types EXCEPT ![t] = position + 1]]]

\* get: Some(symbol), or None where the code panics ("Name nof found on indexes").
\* symbols is a Vec, indexed from 0.
SymbolTable_get(self, name) ==
    IF name \in DOMAIN self.indexes
    THEN Some(self.symbols[self.indexes[name] + 1])
    ELSE None

\* get_pop / get_push: Some(line), None on the panic of get.
SymbolTable_get_pop(self, name) ==
    LET symbol == SymbolTable_get(self, name) IN
    IF symbol = None THEN None
    ELSE Some(<<"pop", get_type_as_str(symbol[1]),
                ToString(get_position(symbol[1]))>>)

SymbolTable_get_push(self, name) ==
    LET symbol == SymbolTable_get(self, name) IN
    IF symbol = None THEN None
    ELSE Some(<<"push", get_type_as_str(symbol[1]),
                ToString(get_position(symbol[1]))>>)

(***************************************************************************)
(* tokenizer.rs: TokenItem and the cursor operations of Tokenizer.  A      *)
(* Tokenizer is [tokens, cursor]; an operation that can panic returns      *)
(* [ok, token, tokenizer], the others what the code returns.               *)
(***************************************************************************)
TokenItem_new(value, token_type) == [token_type |-> token_type, value |-> value]

Tokenizer_reset(self) == [self EXCEPT !.cursor = 0]

has_next(self) == Len(self.tokens) > self.cursor

\* get_next taking the cursor on past the end
get_next_past_end(self) ==
    [token |-> IF has_next(self) THEN Some(self.tokens[self.cursor + 1])
               ELSE None,
     tokenizer |-> [self EXCEPT !.cursor = self.cursor + 1]]

\* get_next: [token: Option<TokenItem>, tokenizer]
get_next(self) ==
    IF has_next(self)
    THEN [token |-> Some(self.tokens[self.cursor + 1]),
          tokenizer |-> [self EXCEPT !.cursor = self.cursor + 1]]
    ELSE [token |-> None, tokenizer |-> self]

peek_next(self) ==
    IF has_next(self) THEN Some(self.tokens[self.cursor + 1]) ELSE None

NoToken == TokenItem_new("", "None")

\* get_next().unwrap() followed by a test that panics when it fails
next_checked(self, Accept(_)) ==
    LET Checked(r) ==
            IF r.token = None
            THEN [ok |-> FALSE, token |-> NoToken, tokenizer |-> r.tokenizer]
            ELSE [ok |-> Accept(r.token[1]), token |-> r.token[1],
                  tokenizer |-> r.tokenizer]
    IN  Checked(get_next(self))

consume(self, value) ==
    LET Accept(token) == token.value = value IN next_checked(self, Accept)

retrieve(self, expected_type) ==
    LET Accept(token) == token.token_type = expected_type
    IN  next_checked(self, Accept)

retrieve_identifier(self) == retrieve(self, "Identifier")

retrieve_any(self, expected_type) ==
    LET Accept(token) == token.token_type \in expected_type
    IN  next_checked(self, Accept)

type_keywords == {"int", "char", "boolean"}

retrieve_type(self) ==
    LET Checked(r) ==
            IF r.ok /\ r.token.token_type = "Keyword"
                    /\ r.token.value \notin type_keywords
            THEN [r EXCEPT !.ok = FALSE]
            ELSE r
    IN  Checked(retrieve_any(self, {"Identifier", "Keyword"}))

\* Called by the parser and not defined in tokenizer.rs as given: modelled
\* from the specification (section 4.B and the operator alphabets of 4.D).
retrieve_keyword(self) == retrieve(self, "Keyword")

OP_SYMBOLS == {"+", "-", "*", "/", "&", "|", "<", ">", "="}

UNARY_OP_SYMBOLS == {"-", "~"}

is_op(token) == token.token_type = "Symbol" /\ token.value \in OP_SYMBOLS

retrieve_op(self) ==
    LET Accept(token) == is_op(token) IN next_checked(self, Accept)

(***************************************************************************)
(* parser.rs: TokenTreeItem                                                *)
(***************************************************************************)
new_root(name) ==
    [name |-> Some(name), item |-> None, nodes |-> <<>>, symbol_table |-> None]

TokenTreeItem_new(token) ==
    [name |-> None, item |-> Some(token), nodes |-> <<>>, symbol_table |-> None]

push(self, item) == [self EXCEPT !.nodes = Append(@, TokenTreeItem_new(item))]

push_item(self, item) == [self EXCEPT !.nodes = Append(@, item)]

set_symbol_table(self, symbol_table) ==
    [self EXCEPT !.symbol_table = Some(symbol_table)]

(***************************************************************************)
(* The parser's functions return [ok, tokenizer, root, symbol_table]: the  *)
(* tokenizer and the symbol table as the function leaves them, root the    *)
(* node it returns.  The helpers below are the statements the functions    *)
(* are written with; each passes a panic on.                               *)
(***************************************************************************)
Building(tokenizer, name, symbol_table) ==
    [ok |-> TRUE, tokenizer |-> tokenizer, root |-> new_root(name),
     symbol_table |-> symbol_table]

\* root.push(<a tokenizer call r>)
PushToken(b, r) ==
    IF ~b.ok THEN b
    ELSE IF ~r.ok THEN [b EXCEPT !.ok = FALSE, !.tokenizer = r.tokenizer]
    ELSE [b EXCEPT !.tokenizer = r.tokenizer, !.root = push(b.root, r.token)]

\* root.push(tokenizer.consume(value))
PushConsume(b, value) == PushToken(b, consume(b.tokenizer, value))

\* root.push(tokenizer.retrieve_identifier())
PushIdentifier(b) == PushToken(b, retrieve_identifier(b.tokenizer))

\* root.push_item(<a parser call r>)
PushItem(b, r) ==
    IF ~b.ok THEN b
    ELSE IF ~r.ok THEN [b EXCEPT !.ok = FALSE, !.tokenizer = r.tokenizer]
    ELSE [b EXCEPT !.tokenizer = r.tokenizer, !.root = push_item(b.root, r.root)]

\* symbol_table.add(symbol_type, kind, name)
AddSymbol(b, symbol_type, kind, name) ==
    IF ~b.ok THEN b
    ELSE LET Added(r) == [b EXCEPT !.ok = r.ok, !.symbol_table = r.st]
         IN  Added(SymbolTable_add(b.symbol_table, symbol_type, kind, name))

PeekValue(b) ==
    LET t == peek_next(b.tokenizer) IN IF t = None THEN None ELSE Some(t[1].value)

Panic(b) == [b EXCEPT !.ok = FALSE]

(***************************************************************************)
(* parser.rs: Term, SubroutineCall, Expression, Statement                  *)
(***************************************************************************)
RECURSIVE Term_build(_), Expression_build(_), Expression_build_loop(_),
          SubroutineCall_build(_), SubroutineCall_build_expression_list(_),
          SubroutineCall_build_expression_list_loop(_), Statement_build(_),
          Statement_build_list(_), Statement_build_list_loop(_)

PushExpression(b) == PushItem(b, Expression_build(b.tokenizer))

PushTerm(b) == PushItem(b, Term_build(b.tokenizer))

PushStatements(b) == PushItem(b, Statement_build_list(b.tokenizer))

PushExpressionList(b) ==
    PushItem(b, SubroutineCall_build_expression_list(b.tokenizer))

Term_build_identifier(b) ==
    LET next_token == PeekValue(b) IN
    IF next_token = None THEN b
    ELSE IF next_token[1] = "["
    THEN PushConsume(PushExpression(PushConsume(b, "[")), "]")
    ELSE IF next_token[1] \in {".", "("} THEN SubroutineCall_build(b)
    ELSE b

\* build_symbol that consumes the ")" of a group without pushing it
Term_build_symbol_drop_close(value, b) ==
    LET Dropped(g, r) ==
            IF ~g.ok THEN g
            ELSE [g EXCEPT !.ok = r.ok, !.tokenizer = r.tokenizer]
        Closed(g) == Dropped(g, consume(g.tokenizer, ")"))
    IN  IF value = "(" THEN Closed(PushExpression(b))
        ELSE IF value \in UNARY_OP_SYMBOLS THEN PushTerm(b)
        ELSE Panic(b)

Term_build_symbol(value, b) ==
    IF value = "(" THEN PushConsume(PushExpression(b), ")")
    ELSE IF value \in UNARY_OP_SYMBOLS THEN PushTerm(b)
    ELSE Panic(b)

Term_build(tokenizer) ==
    LET r == get_next(tokenizer)
        b0 == Building(r.tokenizer, "term", None)
    IN  IF r.token = None THEN Panic(b0)
        ELSE LET token == r.token[1]
                 b == [b0 EXCEPT !.root = push(@, token)]
             IN  CASE token.token_type = "Identifier" -> Term_build_identifier(b)
                   [] token.token_type = "Symbol" ->
                        Term_build_symbol(token.value, b)
                   [] OTHER -> b

\* SubroutineCall::build(root, tokenizer): b holds the caller's root
SubroutineCall_build(b) ==
    LET next_token == peek_next(b.tokenizer) IN
    IF ~b.ok THEN b
    ELSE IF next_token = None THEN Panic(b)
    ELSE IF next_token[1].token_type = "Symbol" /\ next_token[1].value = "("
    THEN PushConsume(PushExpressionList(PushConsume(b, "(")), ")")
    ELSE IF next_token[1].token_type = "Symbol" /\ next_token[1].value = "."
    THEN PushConsume(PushExpressionList(PushConsume(
             PushIdentifier(PushConsume(b, ".")), "(")), ")")
    ELSE Panic(b)

SubroutineCall_build_expression_list_loop(b) ==
    LET next_token == peek_next(b.tokenizer) IN
    IF ~b.ok \/ next_token = None THEN b
    ELSE IF next_token[1].token_type # "Symbol" \/ next_token[1].value # ","
    THEN b
    ELSE SubroutineCall_build_expression_list_loop(
             PushExpression(PushConsume(b, ",")))

SubroutineCall_build_expression_list(tokenizer) ==
    LET b == Building(tokenizer, "expressionList", None)
        next_token == PeekValue(b)
    IN  IF next_token = None \/ next_token[1] = ")" \/ next_token[1] = "]"
        THEN b
        ELSE SubroutineCall_build_expression_list_loop(PushExpression(b))

Expression_build_loop(b) ==
    LET next_token == peek_next(b.tokenizer) IN
    IF ~b.ok \/ next_token = None THEN b
    ELSE IF ~is_op(next_token[1]) THEN b
    ELSE Expression_build_loop(
             PushTerm(PushToken(b, retrieve_op(b.tokenizer))))

Expression_build(tokenizer) ==
    Expression_build_loop(PushTerm(Building(tokenizer, "expression", None)))

\* build_return after the push of "return"
Statement_build_return_value(b) ==
    LET next_token == PeekValue(b) IN
    IF ~b.ok THEN b
    ELSE IF next_token = None THEN Panic(b)
    ELSE IF next_token[1] = ";" THEN PushConsume(b, ";")
    ELSE PushConsume(PushExpression(b), ";")

Statement_build_return(tokenizer) ==
    Statement_build_return_value(
        PushConsume(Building(tokenizer, "returnStatement", None), "return"))

Statement_build_do(tokenizer) ==
    PushConsume(SubroutineCall_build(PushIdentifier(
        PushConsume(Building(tokenizer, "doStatement", None), "do"))), ";")

Statement_build_while(tokenizer) ==
    PushConsume(PushStatements(PushConsume(PushConsume(PushExpression(
        PushConsume(PushConsume(Building(tokenizer, "whileStatement", None),
                                "while"), "(")), ")"), "{")), "}")

\* build_if after the "}" of the first block
Statement_build_if_else(b) ==
    LET next_token == PeekValue(b) IN
    IF ~b.ok THEN b
    ELSE IF next_token = None THEN b
    ELSE IF next_token[1] = "else"
    THEN PushConsume(PushStatements(PushConsume(PushConsume(b, "else"), "{")),
                     "}")
    ELSE b

Statement_build_if(tokenizer) ==
    Statement_build_if_else(
        PushConsume(PushStatements(PushConsume(PushConsume(PushExpression(
            PushConsume(PushConsume(Building(tokenizer, "ifStatement", None),
                                    "if"), "(")), ")"), "{")), "}"))

\* build_let after the push of the identifier: the optional index, then the
\* assigned expression
Statement_build_let_index(b) ==
    IF PeekValue(b)[1] = "["
    THEN PushConsume(PushExpression(PushConsume(b, "[")), "]")
    ELSE b

Statement_build_let_value(b) ==
    IF ~b.ok THEN b
    ELSE IF PeekValue(b) = None THEN Panic(b)
    ELSE PushConsume(PushExpression(
             PushConsume(Statement_build_let_index(b), "=")), ";")

Statement_build_let(tokenizer) ==
    Statement_build_let_value(PushIdentifier(
        PushConsume(Building(tokenizer, "letStatement", None), "let")))

Statement_build(tokenizer) ==
    LET next_token == peek_next(tokenizer)
        b == Building(tokenizer, "statement", None)
    IN  IF next_token = None THEN Panic(b)
        ELSE IF next_token[1].token_type # "Keyword" THEN Panic(b)
        ELSE CASE next_token[1].value = "return" -> Statement_build_return(tokenizer)
               [] next_token[1].value = "do" -> Statement_build_do(tokenizer)
               [] next_token[1].value = "while" -> Statement_build_while(tokenizer)
               [] next_token[1].value = "if" -> Statement_build_if(tokenizer)
               [] next_token[1].value = "let" -> Statement_build_let(tokenizer)
               [] OTHER -> Panic(b)

Statement_build_list_loop(b) ==
    LET next_token == PeekValue(b) IN
    IF ~b.ok \/ next_token = None THEN b
    ELSE IF next_token[1] = "}" THEN b
    ELSE Statement_build_list_loop(PushItem(b, Statement_build(b.tokenizer)))

Statement_build_list(tokenizer) ==
    Statement_build_list_loop(Building(tokenizer, "statements", None))

(***************************************************************************)
(* parser.rs: VarDec, SubroutineDec, ClassNode.  A function that returns a *)
(* Vec of nodes returns it in the field result.                            *)
(***************************************************************************)
RECURSIVE build_field_loop(_, _, _), build_parameters_loop(_),
          build_var_loop(_), VarDec_build_class_loop(_),
          SubroutineDec_build_loop(_)

\* The two retrieve_* calls that read "Type Id", then the add, then the two
\* pushes (build_field 282-290, build_parameters 389-399).
TypeAndIdentifier(b, descriptor) ==
    LET Added(field_type, identifier, b1, b2) ==
            IF ~b.ok THEN b
            ELSE IF ~field_type.ok
            THEN [b EXCEPT !.ok = FALSE, !.tokenizer = field_type.tokenizer]
            ELSE IF ~identifier.ok THEN Panic(b1)
            ELSE IF ~b2.ok THEN b2
            ELSE [b2 EXCEPT !.root = push(push(@, field_type.token),
                                          identifier.token)]
        Moved(field_type, identifier, b1) ==
            Added(field_type, identifier, b1,
                  AddSymbol(b1, descriptor, field_type.token.value,
                            identifier.token.value))
        Named(field_type, identifier) ==
            Moved(field_type, identifier,
                  [b EXCEPT !.tokenizer = identifier.tokenizer])
        Typed(field_type) ==
            Named(field_type, retrieve_identifier(field_type.tokenizer))
    IN  Typed(retrieve_type(b.tokenizer))

build_field_loop(b, descriptor, kind) ==
    LET Added(r, b1, identifier, b2, b3) ==
            IF ~b.ok \/ r.token = None THEN b
            ELSE IF r.token[1].value = ","
            THEN IF ~identifier.ok THEN Panic(b2)
                 ELSE IF ~b3.ok THEN b3
                 ELSE build_field_loop(
                          [b3 EXCEPT !.root = push(@, identifier.token)],
                          descriptor, kind)
            ELSE IF r.token[1].value = ";"
            THEN [b1 EXCEPT !.root = push(@, r.token[1])]
            ELSE Panic(b1)
        Pushed(r, b1, identifier, b2) ==
            Added(r, b1, identifier, b2,
                  AddSymbol(b2, descriptor, kind, identifier.token.value))
        Named(r, b1, identifier) ==
            Pushed(r, b1, identifier,
                   [b1 EXCEPT !.root = push(@, r.token[1]),
                              !.tokenizer = identifier.tokenizer])
        Moved(r, b1) == Named(r, b1, retrieve_identifier(b1.tokenizer))
        Read(r) == Moved(r, [b EXCEPT !.tokenizer = r.tokenizer])
    IN  Read(get_next(b.tokenizer))

\* build_field after "Type Id": kind is the value of the type token
VarDec_build_field_names(b, descriptor) ==
    IF ~b.ok THEN b
    ELSE build_field_loop(b, descriptor, b.root.nodes[2].item[1].value)

VarDec_build_field(tokenizer, name, descriptor, symbol_table) ==
    VarDec_build_field_names(
        TypeAndIdentifier(
            PushConsume(Building(tokenizer, name, symbol_table), descriptor),
            descriptor),
        descriptor)

\* A Vec under construction: [ok, tokenizer, result, symbol_table]
Collecting(tokenizer, symbol_table) ==
    [ok |-> TRUE, tokenizer |-> tokenizer, result |-> <<>>,
     symbol_table |-> symbol_table]

\* result.push(<a parser call r that may change the symbol table>)
Collect(c, r) ==
    [ok |-> r.ok, tokenizer |-> r.tokenizer,
     result |-> IF r.ok THEN Append(c.result, r.root) ELSE c.result,
     symbol_table |-> r.symbol_table]

\* The descriptor the loop of build_class dispatches on, None at its break.
build_class_case(tokenizer) ==
    LET current_token == peek_next(tokenizer) IN
    IF current_token = None THEN None
    ELSE IF current_token[1].value \in {"field", "static"}
    THEN Some(current_token[1].value)
    ELSE None

VarDec_build_class_loop(c) ==
    LET d == build_class_case(c.tokenizer) IN
    IF ~c.ok \/ d = None THEN c
    ELSE VarDec_build_class_loop(
             Collect(c, VarDec_build_field(c.tokenizer, "classVarDec", d[1],
                                           c.symbol_table)))

VarDec_build_class(tokenizer, symbol_table) ==
    VarDec_build_class_loop(Collecting(tokenizer, symbol_table))

build_var_loop(c) ==
    LET current_token == peek_next(c.tokenizer) IN
    IF ~c.ok \/ current_token = None THEN c
    ELSE IF current_token[1].value = "var"
    THEN build_var_loop(
             Collect(c, VarDec_build_field(c.tokenizer, "varDec", "var",
                                           c.symbol_table)))
    ELSE c

VarDec_build_var(tokenizer, symbol_table) ==
    build_var_loop(Collecting(tokenizer, symbol_table))

\* the "," a parameter after the first starts with
build_parameters_comma(b) ==
    IF PeekValue(b)[1] = "," THEN PushConsume(b, ",") ELSE b

build_parameters_loop(b) ==
    LET next_token == PeekValue(b) IN
    IF ~b.ok \/ next_token = None THEN b
    ELSE IF next_token[1] = ")" THEN b
    ELSE build_parameters_loop(
             TypeAndIdentifier(build_parameters_comma(b), "argument"))

SubroutineDec_build_parameters(tokenizer, symbol_table) ==
    build_parameters_loop(Building(tokenizer, "parameterList", symbol_table))

\* for item in <a Vec of nodes c> { root.push_item(item) }
PushCollected(b, c) ==
    [ok |-> c.ok, tokenizer |-> c.tokenizer,
     root |-> [b.root EXCEPT !.nodes = @ \o c.result],
     symbol_table |-> c.symbol_table]

PushVarDecs(b) ==
    IF ~b.ok THEN b
    ELSE PushCollected(b, VarDec_build_var(b.tokenizer, b.symbol_table))

SubroutineDec_build_body(tokenizer, symbol_table) ==
    PushConsume(PushStatements(PushVarDecs(
        PushConsume(Building(tokenizer, "subroutineBody", symbol_table), "{"))),
        "}")

\* root.push(tokenizer.retrieve_any(expected_type))
PushToken_any(b, expected_type) ==
    PushToken(b, retrieve_any(b.tokenizer, expected_type))

\* root.push_item(<a parser call r given &mut symbol_table>)
PushItemTable(b, r) == [PushItem(b, r) EXCEPT !.symbol_table = r.symbol_table]

PushParameters(b) ==
    IF ~b.ok THEN b
    ELSE PushItemTable(b, SubroutineDec_build_parameters(b.tokenizer,
                                                         b.symbol_table))

PushBody(b) ==
    IF ~b.ok THEN b
    ELSE PushItemTable(b, SubroutineDec_build_body(b.tokenizer, b.symbol_table))

\* root.set_symbol_table(symbol_table); root.  The caller's table, borrowed
\* immutably, is as it was.
SubroutineDec_build_subroutine_return(b, symbol_table) ==
    [b EXCEPT !.root = set_symbol_table(@, b.symbol_table),
              !.symbol_table = symbol_table]

\* build_subroutine works on a clone: symbol_table in the result is the
\* caller's table as the call leaves it, the clone is attached to root.
SubroutineDec_build_subroutine(tokenizer, symbol_table) ==
    SubroutineDec_build_subroutine_return(
        PushBody(PushConsume(PushParameters(PushConsume(PushIdentifier(
            PushToken_any(
                PushToken(Building(tokenizer, "subroutineDec",
                                   SymbolTable_clone(symbol_table)),
                          retrieve_keyword(tokenizer)),
                {"Keyword", "Identifier"})), "(")), ")")),
        symbol_table)

\* TRUE where the loop of SubroutineDec::build runs its body once more
SubroutineDec_build_more(tokenizer) ==
    LET next_token == peek_next(tokenizer) IN
    next_token # None /\ next_token[1].value # "}"

SubroutineDec_build_loop(c) ==
    IF ~c.ok \/ ~SubroutineDec_build_more(c.tokenizer) THEN c
    ELSE SubroutineDec_build_loop(
             Collect(c, SubroutineDec_build_subroutine(c.tokenizer,
                                                       c.symbol_table)))

SubroutineDec_build(tokenizer, symbol_table) ==
    SubroutineDec_build_loop(Collecting(tokenizer, symbol_table))

\* ClassNode::build up to the first loop, without the reset
ClassNode_build_head_no_reset(tokenizer) ==
    PushConsume(PushIdentifier(
        PushConsume(Building(tokenizer, "class", SymbolTable_new), "class")),
        "{")

\* ClassNode::build up to the first loop (196-205)
ClassNode_build_head(tokenizer) ==
    PushConsume(PushIdentifier(
        PushConsume(Building(Tokenizer_reset(tokenizer), "class",
                             SymbolTable_new), "class")), "{")

\* ClassNode::build: [ok, tokenizer, root, symbol_table]
PushClassVarDecs(b) ==
    IF ~b.ok THEN b
    ELSE PushCollected(b, VarDec_build_class(b.tokenizer, b.symbol_table))

PushSubroutineDecs(b) ==
    IF ~b.ok THEN b
    ELSE PushCollected(b, SubroutineDec_build(b.tokenizer, b.symbol_table))

\* a ClassNode::build whose last step fails when tokens are left
ClassNode_build_close_to_end(b) ==
    LET r == PushConsume(b, "}") IN
    IF r.ok /\ r.tokenizer.cursor < Len(r.tokenizer.tokens)
    THEN [r EXCEPT !.ok = FALSE]
    ELSE r

\* the last step of ClassNode::build (215)
ClassNode_build_close(b) == PushConsume(b, "}")

ClassNode_build(tokenizer) ==
    ClassNode_build_close(PushSubroutineDecs(PushClassVarDecs(
        ClassNode_build_head(tokenizer))))

(***************************************************************************)
(* parser.rs: the SymbolTable methods the generator calls that parser.rs   *)
(* as given does not define; modelled from the specification, section 4.C. *)
(***************************************************************************)
SymbolTable_contains(self, name) == name \in DOMAIN self.indexes

\* the type (kind) of the symbol; called only where contains holds
SymbolTable_get_type(self, name) == self.symbols[self.indexes[name] + 1].kind

SymbolTable_count_fields(self) == self.types["Field"]

(***************************************************************************)
(* writer.rs: VmWriter.  A VmWriter is [class_symbol_table, symbol_table,  *)
(* class_name, current_id]; a build function returns [ok, w, result]: the  *)
(* writer as it leaves it and the lines it returns.                        *)
(***************************************************************************)
VmWriter_new ==
    [class_symbol_table |-> SymbolTable_new, symbol_table |-> SymbolTable_new,
     class_name |-> "", current_id |-> 0]

\* get_next_id without the increment of current_id
get_next_id_stuck(w) == [id |-> w.current_id, w |-> w]

\* get_next_id adding 2 to the counter
get_next_id_by_two(w) ==
    [id |-> w.current_id, w |-> [w EXCEPT !.current_id = @ + 2]]

\* get_next_id: [id, w]
get_next_id(w) == [id |-> w.current_id, w |-> [w EXCEPT !.current_id = @ + 1]]

validate_name(item, name) == item.name # None /\ item.name[1] = name

\* The chars of the string constants of the model, as c as i32 gives them.
StringChars(value) ==
    CASE value = "" -> <<>>
      [] value = "Hi" -> <<72, 105>>
      [] value = "Ola" -> <<79, 108, 97>>
      [] OTHER -> <<>>

\* let mut result = Vec::new(), after validate_name's check
Begin(w, tree, name) ==
    [ok |-> validate_name(tree, name), w |-> w, result |-> <<>>]

Fail(g) == [g EXCEPT !.ok = FALSE]

\* result.push(line)
Emit(g, line) == IF ~g.ok THEN g ELSE [g EXCEPT !.result = Append(@, line)]

\* result.push(<get_push or get_pop>): line is None where get panics
EmitSymbol(g, line) ==
    IF ~g.ok THEN g
    ELSE IF line = None THEN Fail(g)
    ELSE [g EXCEPT !.result = Append(@, line[1])]

\* tree.get_nodes().get(i): Option<node>, i counted from 0
Node(tree, i) == IF i < Len(tree.nodes) THEN Some(tree.nodes[i + 1]) ELSE None

\* tree.get_nodes().get(i).unwrap().get_item().as_ref().unwrap(): None
\* where one of the two unwraps panics
Item(tree, i) ==
    LET n == Node(tree, i) IN
    IF n = None THEN None ELSE n[1].item

RECURSIVE VmWriter_build(_, _)

\* result.extend(self.build(tree.get_nodes().get(i).unwrap()))
Extend(g, tree, i) ==
    LET n == Node(tree, i)
        Extended(r) == [ok |-> r.ok, w |-> r.w, result |-> g.result \o r.result]
    IN  IF ~g.ok THEN g
        ELSE IF n = None THEN Fail(g)
        ELSE Extended(VmWriter_build(g.w, n[1]))

build_expression_op(op) ==
    LET v == op.item[1].value IN
    CASE v = "+" -> Some(<<"add">>)
      [] v = "-" -> Some(<<"sub">>)
      [] v = "*" -> Some(<<"call", "Math.multiply", "2">>)
      [] v = "/" -> Some(<<"call", "Math.divide", "2">>)
      [] v = "&" -> Some(<<"and">>)
      [] v = "|" -> Some(<<"or">>)
      [] v = ">" -> Some(<<"gt">>)
      [] v = "<" -> Some(<<"lt">>)
      [] v = "=" -> Some(<<"eq">>)
      [] OTHER -> None

\* build_expression's loop with the operator pushed before the operand that
\* follows it
RECURSIVE build_expression_loop_op_first(_, _, _)
build_expression_loop_op_first(g, tree, i) ==
    LET op == Node(tree, i) IN
    IF ~g.ok \/ ~(i < Len(tree.nodes)) THEN g
    ELSE IF op[1].item = None THEN Fail(g)
    ELSE build_expression_loop_op_first(
             Extend(EmitSymbol(g, build_expression_op(op[1])), tree, i + 1),
             tree, i + 2)

RECURSIVE build_expression_loop(_, _, _)
build_expression_loop(g, tree, i) ==
    LET op == Node(tree, i)
        Operand(g1) ==
            IF ~g1.ok THEN g1
            ELSE IF op[1].item = None THEN Fail(g1)
            ELSE build_expression_loop(
                     EmitSymbol(g1, build_expression_op(op[1])), tree, i + 2)
    IN  IF ~g.ok \/ ~(i < Len(tree.nodes)) THEN g
        ELSE Operand(Extend(g, tree, i + 1))

build_expression(w, tree) ==
    build_expression_loop(Extend(Begin(w, tree, "expression"), tree, 0), tree, 1)

\* build_subroutine_call without the branch of the empty identifier
build_subroutine_call_no_receiver(w, tree, identifier, base_item) ==
    LET g == [ok |-> TRUE, w |-> w, result |-> <<>>]
        another_identifier == Item(tree, base_item)
        expression_list == Node(tree, base_item + 2)
        count_arguments == (Len(expression_list[1].nodes) + 1) \div 2
        found == SymbolTable_contains(w.symbol_table, identifier)
        g1 == IF found
              THEN EmitSymbol(g, SymbolTable_get_push(w.symbol_table, identifier))
              ELSE g
        name1 == IF found THEN SymbolTable_get_type(w.symbol_table, identifier)
                 ELSE identifier
        count1 == IF found THEN count_arguments + 1 ELSE count_arguments
        name2 == IF identifier = "" THEN w.class_name ELSE name1
    IN  IF another_identifier = None \/ expression_list = None THEN Fail(g)
        ELSE Emit(Extend(g1, tree, base_item + 2),
                  <<"call", name2 \o "." \o another_identifier[1].value,
                    ToString(count1)>>)

build_subroutine_call(w, tree, identifier, base_item) ==
    LET g == [ok |-> TRUE, w |-> w, result |-> <<>>]
        another_identifier == Item(tree, base_item)
        expression_list == Node(tree, base_item + 2)
        count_arguments == (Len(expression_list[1].nodes) + 1) \div 2
        found == SymbolTable_contains(w.symbol_table, identifier)
        g1 == IF found
              THEN EmitSymbol(g, SymbolTable_get_push(w.symbol_table, identifier))
              ELSE g
        name1 == IF found THEN SymbolTable_get_type(w.symbol_table, identifier)
                 ELSE identifier
        count1 == IF found THEN count_arguments + 1 ELSE count_arguments
        local == identifier = ""
        g2 == IF local THEN Emit(g1, <<"push", "pointer", "0">>) ELSE g1
        name2 == IF local THEN w.class_name ELSE name1
        count2 == IF local THEN count1 + 1 ELSE count1
    IN  IF another_identifier = None \/ expression_list = None THEN Fail(g)
        ELSE Emit(Extend(g2, tree, base_item + 2),
                  <<"call", name2 \o "." \o another_identifier[1].value,
                    ToString(count2)>>)

RECURSIVE build_term_chars(_, _, _)
build_term_chars(g, chars, i) ==
    IF i > Len(chars) THEN g
    ELSE build_term_chars(
             Emit(Emit(g, <<"push", "constant", ToString(chars[i])>>),
                  <<"call", "String.appendChar", "2">>), chars, i + 1)

build_term(w, tree) ==
    LET g == Begin(w, tree, "term")
        item == Item(tree, 0)
        value == item[1].value
        symbol == Item(tree, 1)
        push_identifier == SymbolTable_get_push(w.symbol_table, value)
        Call(r) == [ok |-> r.ok, w |-> r.w, result |-> g.result \o r.result]
    IN  IF ~g.ok THEN g
        ELSE IF item = None THEN Fail(g)
        ELSE CASE item[1].token_type = "Integer" ->
                    Emit(g, <<"push", "constant", value>>)
               [] item[1].token_type = "String" ->
                    build_term_chars(
                        Emit(Emit(g, <<"push", "constant", ToString(Len(value))>>),
                             <<"call", "String.new", "1">>),
                        StringChars(value), 1)
               [] item[1].token_type = "Identifier" ->
                    IF Len(tree.nodes) = 4
                    THEN IF symbol = None THEN Fail(g)
                         ELSE IF symbol[1].value = "["
                         THEN Emit(Emit(Emit(
                                  Extend(EmitSymbol(g, push_identifier), tree, 2),
                                  <<"add">>), <<"pop", "pointer", "1">>),
                                  <<"push", "that", "0">>)
                         ELSE Call(build_subroutine_call(w, tree, "", 0))
                    ELSE IF Len(tree.nodes) = 6
                    THEN Call(build_subroutine_call(w, tree, value, 2))
                    ELSE EmitSymbol(g, push_identifier)
               [] item[1].token_type = "Keyword" ->
                    CASE value = "false" -> Emit(g, <<"push", "constant", "0">>)
                      [] value = "true" ->
                           Emit(Emit(g, <<"push", "constant", "0">>), <<"not">>)
                      [] value = "this" -> Emit(g, <<"push", "pointer", "0">>)
                      [] value = "null" -> Emit(g, <<"push", "constant", "0">>)
                      [] OTHER -> Fail(g)
               [] item[1].token_type = "Symbol" ->
                    CASE value = "-" -> Emit(Extend(g, tree, 1), <<"neg">>)
                      [] value = "~" -> Emit(Extend(g, tree, 1), <<"not">>)
                      [] value = "(" -> Extend(g, tree, 1)
                      [] OTHER -> Fail(g)
               [] OTHER -> Fail(g)

RECURSIVE build_statements_loop(_, _, _)
build_statements_loop(g, tree, i) ==
    IF ~g.ok \/ ~(i < Len(tree.nodes)) THEN g
    ELSE build_statements_loop(Extend(g, tree, i), tree, i + 1)

build_statements(w, tree) ==
    build_statements_loop(Begin(w, tree, "statements"), tree, 0)

\* build_let with the array form setting pointer 1 before the right-hand
\* side is built
build_let_pointer_first(w, tree) ==
    LET g == Begin(w, tree, "letStatement")
        identifier == Item(tree, 1)
    IN  IF ~g.ok THEN g
        ELSE IF Len(tree.nodes) = 5
        THEN IF identifier = None THEN Fail(Extend(g, tree, 3))
             ELSE EmitSymbol(Extend(g, tree, 3),
                             SymbolTable_get_pop(w.symbol_table,
                                                 identifier[1].value))
        ELSE IF Len(tree.nodes) = 8
        THEN IF identifier = None THEN Fail(g)
             ELSE Emit(Extend(Emit(Emit(Extend(
                          EmitSymbol(g, SymbolTable_get_push(
                                            w.symbol_table, identifier[1].value)),
                          tree, 3), <<"add">>), <<"pop", "pointer", "1">>),
                      tree, 6), <<"pop", "that", "0">>)
        ELSE Fail(g)

build_let(w, tree) ==
    LET g == Begin(w, tree, "letStatement")
        identifier == Item(tree, 1)
    IN  IF ~g.ok THEN g
        ELSE IF Len(tree.nodes) = 5
        THEN IF identifier = None THEN Fail(Extend(g, tree, 3))
             ELSE EmitSymbol(Extend(g, tree, 3),
                             SymbolTable_get_pop(w.symbol_table,
                                                 identifier[1].value))
        ELSE IF Len(tree.nodes) = 8
        THEN IF identifier = None THEN Fail(g)
             ELSE Emit(Emit(Emit(Emit(
                      Extend(Emit(Extend(
                          EmitSymbol(g, SymbolTable_get_push(
                                            w.symbol_table, identifier[1].value)),
                          tree, 3), <<"add">>), tree, 6),
                      <<"pop", "temp", "0">>), <<"pop", "pointer", "1">>),
                      <<"push", "temp", "0">>), <<"pop", "that", "0">>)
        ELSE Fail(g)

build_return(w, tree) ==
    Emit(IF Len(tree.nodes) = 3
         THEN Extend(Begin(w, tree, "returnStatement"), tree, 1)
         ELSE Emit(Begin(w, tree, "returnStatement"), <<"push", "constant", "0">>),
         <<"return">>)

\* build_do without the pop of the value the call returns
build_do_keep_value(w, tree) ==
    LET g == Begin(w, tree, "doStatement")
        qualified == Len(tree.nodes) = 8
        base_index == IF qualified THEN 3 ELSE 1
        class_name == IF qualified THEN Item(tree, 1)
                      ELSE Some(TokenItem_new("", "None"))
        Called(r) == [ok |-> r.ok, w |-> r.w, result |-> g.result \o r.result]
    IN  IF ~g.ok THEN g
        ELSE IF class_name = None THEN Fail(g)
        ELSE Called(build_subroutine_call(w, tree, class_name[1].value,
                                          base_index))

build_do(w, tree) ==
    LET g == Begin(w, tree, "doStatement")
        qualified == Len(tree.nodes) = 8
        base_index == IF qualified THEN 3 ELSE 1
        class_name == IF qualified THEN Item(tree, 1)
                      ELSE Some(TokenItem_new("", "None"))
        Called(r) ==
            Emit([ok |-> r.ok, w |-> r.w, result |-> g.result \o r.result],
                 <<"pop", "temp", "0">>)
    IN  IF ~g.ok THEN g
        ELSE IF class_name = None THEN Fail(g)
        ELSE Called(build_subroutine_call(w, tree, class_name[1].value,
                                          base_index))

\* build_while with the test after the body
build_while_test_last(w, tree) ==
    LET next == get_next_id(w)
        count == ToString(next.id)
        g == [Begin(w, tree, "whileStatement") EXCEPT !.w = next.w]
    IN  Emit(Emit(Emit(Emit(Extend(
            Extend(Emit(g, <<"label", "WHILE_EXP" \o count>>), tree, 5),
            tree, 2), <<"not">>), <<"if-goto", "WHILE_END" \o count>>),
            <<"goto", "WHILE_EXP" \o count>>),
            <<"label", "WHILE_END" \o count>>)

\* build_while with the back jump named after self.current_id as get_next_id
\* left it, not after the id it returned
build_while_back_jump(w, tree) ==
    LET next == get_next_id(w)
        count == ToString(next.id)
        g == [Begin(w, tree, "whileStatement") EXCEPT !.w = next.w]
    IN  Emit(Emit(Extend(Emit(Emit(
            Extend(Emit(g, <<"label", "WHILE_EXP" \o count>>), tree, 2),
            <<"not">>), <<"if-goto", "WHILE_END" \o count>>), tree, 5),
            <<"goto", "WHILE_EXP" \o ToString(next.w.current_id)>>),
            <<"label", "WHILE_END" \o count>>)

build_while(w, tree) ==
    LET next == get_next_id(w)
        count == ToString(next.id)
        g == [Begin(w, tree, "whileStatement") EXCEPT !.w = next.w]
    IN  Emit(Emit(Extend(Emit(Emit(
            Extend(Emit(g, <<"label", "WHILE_EXP" \o count>>), tree, 2),
            <<"not">>), <<"if-goto", "WHILE_END" \o count>>), tree, 5),
            <<"goto", "WHILE_EXP" \o count>>),
            <<"label", "WHILE_END" \o count>>)

\* build_if after the first block with the lines of IF_END in both shapes
build_if_else_always_end(g, tree, count) ==
    IF Len(tree.nodes) = 7
    THEN Emit(Emit(Emit(g, <<"goto", "IF_END" \o count>>),
                   <<"label", "IF_FALSE" \o count>>),
              <<"label", "IF_END" \o count>>)
    ELSE Emit(Extend(Emit(Emit(g, <<"goto", "IF_END" \o count>>),
                          <<"label", "IF_FALSE" \o count>>), tree, 9),
              <<"label", "IF_END" \o count>>)

\* build_if after the first block: the labels of the two shapes
build_if_else(g, tree, count) ==
    IF Len(tree.nodes) = 7
    THEN Emit(g, <<"label", "IF_FALSE" \o count>>)
    ELSE Emit(Extend(Emit(Emit(g, <<"goto", "IF_END" \o count>>),
                          <<"label", "IF_FALSE" \o count>>), tree, 9),
              <<"label", "IF_END" \o count>>)

build_if(w, tree) ==
    LET next == get_next_id(w)
        count == ToString(next.id)
        g == [Begin(w, tree, "ifStatement") EXCEPT !.w = next.w]
    IN  build_if_else(
            Extend(Emit(Emit(Emit(Extend(g, tree, 2),
                                  <<"if-goto", "IF_TRUE" \o count>>),
                             <<"goto", "IF_FALSE" \o count>>),
                        <<"label", "IF_TRUE" \o count>>), tree, 5),
            tree, count)

RECURSIVE build_expression_list_items(_, _, _)
build_expression_list_items(g, tree, i) ==
    IF ~g.ok \/ ~(i < Len(tree.nodes)) THEN g
    ELSE build_expression_list_items(Extend(g, tree, i), tree, i + 2)

build_expression_list(w, tree) ==
    build_expression_list_items(Begin(w, tree, "expressionList"), tree, 0)

\* A symbol table under construction: [ok, st]
RECURSIVE add_names_loop(_, _, _, _, _)
\* the loops of build_class_var_dec and build_var_dec: a name at every second
\* child from position on
add_names_loop(t, tree, symbol_type, kind, position) ==
    LET name == Item(tree, position)
        r == SymbolTable_add(t.st, symbol_type, kind, name[1].value)
    IN  IF ~t.ok \/ ~(position < Len(tree.nodes)) THEN t
        ELSE IF name = None THEN [t EXCEPT !.ok = FALSE]
        ELSE add_names_loop(r, tree, symbol_type, kind, position + 2)

\* the add of children 1 and 2 as kind and name, then the loop from child 4
add_declared(st, tree, symbol_type) ==
    LET kind == Item(tree, 1)
        name == Item(tree, 2)
        r == SymbolTable_add(st, symbol_type, kind[1].value, name[1].value)
    IN  IF kind = None \/ name = None THEN [ok |-> FALSE, st |-> st]
        ELSE add_names_loop(r, tree, symbol_type, kind[1].value, 4)

build_class_var_dec(w, tree) ==
    LET g == Begin(w, tree, "classVarDec")
        symbol_type == Item(tree, 0)
        Declared(r) == [g EXCEPT !.ok = r.ok, !.w.class_symbol_table = r.st]
    IN  IF ~g.ok THEN g
        ELSE IF symbol_type = None THEN Fail(g)
        ELSE Declared(add_declared(w.class_symbol_table, tree,
                                   symbol_type[1].value))

RECURSIVE build_parameter_list_loop(_, _, _)
build_parameter_list_loop(t, tree, position) ==
    LET kind == Item(tree, position)
        name == Item(tree, position + 1)
        r == SymbolTable_add(t.st, "argument", kind[1].value, name[1].value)
    IN  IF ~t.ok \/ ~(position < Len(tree.nodes)) THEN t
        ELSE IF kind = None \/ name = None THEN [t EXCEPT !.ok = FALSE]
        ELSE build_parameter_list_loop(r, tree, position + 3)

\* build_parameter_list / build_var_dec: [ok, st], st the table returned
build_parameter_list(tree, symbol_table) ==
    LET cloned == SymbolTable_clone(symbol_table)
        kind == Node(tree, 0)
        name == Item(tree, 1)
        r == SymbolTable_add(cloned, "argument", kind[1].item[1].value,
                             name[1].value)
    IN  IF ~validate_name(tree, "parameterList")
        THEN [ok |-> FALSE, st |-> cloned]
        ELSE IF kind = None THEN [ok |-> TRUE, st |-> cloned]
        ELSE IF kind[1].item = None \/ name = None
        THEN [ok |-> FALSE, st |-> cloned]
        ELSE build_parameter_list_loop(r, tree, 3)

build_var_dec(tree, symbol_table) ==
    IF ~validate_name(tree, "varDec")
    THEN [ok |-> FALSE, st |-> symbol_table]
    ELSE add_declared(SymbolTable_clone(symbol_table), tree, "var")

\* the "parameterList" and "varDec" arms of build
\* self.symbol_table = <the table r returns>
SetSymbolTable(w, r) ==
    [ok |-> r.ok, w |-> IF r.ok THEN [w EXCEPT !.symbol_table = r.st] ELSE w,
     result |-> <<>>]

\* the parameterList arm with the clone taken of the table in use, the one
\* the previous subroutine left
build_parameterList_arm_of_current(w, tree) ==
    SetSymbolTable(w, build_parameter_list(tree, w.symbol_table))

build_parameterList_arm(w, tree) ==
    SetSymbolTable(w, build_parameter_list(tree, w.class_symbol_table))

build_varDec_arm(w, tree) ==
    SetSymbolTable(w, build_var_dec(tree, w.symbol_table))

RECURSIVE build_subroutine_body_loop(_, _, _)
build_subroutine_body_loop(g, tree, next_item) ==
    IF ~g.ok \/ ~(Len(tree.nodes) > next_item + 1) THEN g
    ELSE build_subroutine_body_loop(Extend(g, tree, next_item), tree,
                                    next_item + 1)

build_subroutine_body(w, tree) ==
    build_subroutine_body_loop(Begin(w, tree, "subroutineBody"), tree, 1)

\* count_var_dec adding one for every varDec, whatever the number of its names
RECURSIVE count_var_dec_declarations(_, _, _)
count_var_dec_declarations(body, var_dec_item, count_fields) ==
    LET fields == body.nodes[var_dec_item + 1] IN
    IF ~(Len(body.nodes) > var_dec_item) THEN Some(count_fields)
    ELSE IF fields.name = None THEN None
    ELSE IF fields.name[1] = "varDec"
    THEN count_var_dec_declarations(body, var_dec_item + 1, count_fields + 1)
    ELSE Some(count_fields)

\* the loop of build_subroutine_dec that counts the names of the varDec
\* children of body: Some(count_fields), None where an unwrap panics
RECURSIVE count_var_dec(_, _, _)
count_var_dec(body, var_dec_item, count_fields) ==
    LET fields == body.nodes[var_dec_item + 1] IN
    IF ~(Len(body.nodes) > var_dec_item) THEN Some(count_fields)
    ELSE IF fields.name = None THEN None
    ELSE IF fields.name[1] = "varDec"
    THEN count_var_dec(body, var_dec_item + 1,
                       count_fields + ((Len(fields.nodes) - 2) \div 2))
    ELSE Some(count_fields)

\* build_subroutine_dec with the constructor allocating one word for every
\* symbol of the class table, statics included
build_subroutine_dec_all_symbols(w, tree) ==
    LET g == Begin(w, tree, "subroutineDec")
        routine_type == Item(tree, 0)
        name == Item(tree, 2)
        arguments == Node(tree, 4)
        body == Node(tree, 6)
        count_fields == count_var_dec(body[1], 1, 0)
        g1 == Emit(g, <<"function", w.class_name \o "." \o name[1].value,
                        ToString(count_fields[1])>>)
        g2 == CASE routine_type[1].value = "constructor" ->
                     Emit(Emit(Emit(g1,
                         <<"push", "constant",
                           ToString(Len(w.class_symbol_table.symbols))>>),
                         <<"call", "Memory.alloc", "1">>),
                         <<"pop", "pointer", "0">>)
                [] routine_type[1].value = "function" -> g1
                [] routine_type[1].value = "method" ->
                     Emit(Emit(g1, <<"push", "argument", "0">>),
                          <<"pop", "pointer", "0">>)
                [] OTHER -> Fail(g1)
    IN  IF ~g.ok THEN g
        ELSE IF routine_type = None \/ name = None \/ arguments = None
                \/ body = None
        THEN Fail(g)
        ELSE IF count_fields = None THEN Fail(g)
        ELSE Extend(Extend(g2, tree, 4), tree, 6)

build_subroutine_dec(w, tree) ==
    LET g == Begin(w, tree, "subroutineDec")
        routine_type == Item(tree, 0)
        name == Item(tree, 2)
        arguments == Node(tree, 4)
        body == Node(tree, 6)
        count_fields == count_var_dec(body[1], 1, 0)
        g1 == Emit(g, <<"function", w.class_name \o "." \o name[1].value,
                        ToString(count_fields[1])>>)
        g2 == CASE routine_type[1].value = "constructor" ->
                     Emit(Emit(Emit(g1,
                         <<"push", "constant",
                           ToString(SymbolTable_count_fields(
                                        w.class_symbol_table))>>),
                         <<"call", "Memory.alloc", "1">>),
                         <<"pop", "pointer", "0">>)
                [] routine_type[1].value = "function" -> g1
                [] routine_type[1].value = "method" ->
                     Emit(Emit(g1, <<"push", "argument", "0">>),
                          <<"pop", "pointer", "0">>)
                [] OTHER -> Fail(g1)
    IN  IF ~g.ok THEN g
        ELSE IF routine_type = None \/ name = None \/ arguments = None
                \/ body = None
        THEN Fail(g)
        ELSE IF count_fields = None THEN Fail(g)
        ELSE Extend(Extend(g2, tree, 4), tree, 6)

\* build_class up to its loop (97-115): [ok, w, result, returned]; returned
\* is TRUE where the function returns before the loop
build_class_head(w, tree) ==
    LET class_name == Item(tree, 1) IN
    IF ~validate_name(tree, "class")
    THEN [ok |-> FALSE, w |-> w, result |-> <<>>, returned |-> TRUE]
    ELSE IF Len(tree.nodes) <= 4
    THEN [ok |-> TRUE, w |-> w, result |-> <<>>, returned |-> TRUE]
    ELSE IF class_name = None
    THEN [ok |-> FALSE, w |-> w, result |-> <<>>, returned |-> TRUE]
    ELSE [ok |-> TRUE, w |-> [w EXCEPT !.class_name = class_name[1].value],
          result |-> <<>>, returned |-> FALSE]

\* the condition of the loop of build_class
build_class_more(tree, next_item) == Len(tree.nodes) > next_item + 1

RECURSIVE build_class_loop(_, _, _)
build_class_loop(g, tree, next_item) ==
    IF ~g.ok \/ ~build_class_more(tree, next_item) THEN g
    ELSE build_class_loop(Extend(g, tree, next_item), tree, next_item + 1)

build_class(w, tree) ==
    LET h == build_class_head(w, tree)
        g == [ok |-> h.ok, w |-> h.w, result |-> h.result]
    IN  IF h.returned THEN g ELSE build_class_loop(g, tree, 3)

\* build: the dispatch on the node's name
VmWriter_build(w, tree) ==
    LET group == tree.name IN
    IF group = None THEN [ok |-> TRUE, w |-> w, result |-> <<>>]
    ELSE CASE group[1] = "expression" -> build_expression(w, tree)
           [] group[1] = "term" -> build_term(w, tree)
           [] group[1] = "statements" -> build_statements(w, tree)
           [] group[1] = "letStatement" -> build_let(w, tree)
           [] group[1] = "returnStatement" -> build_return(w, tree)
           [] group[1] = "doStatement" -> build_do(w, tree)
           [] group[1] = "whileStatement" -> build_while(w, tree)
           [] group[1] = "ifStatement" -> build_if(w, tree)
           [] group[1] = "expressionList" -> build_expression_list(w, tree)
           [] group[1] = "class" -> build_class(w, tree)
           [] group[1] = "classVarDec" -> build_class_var_dec(w, tree)
           [] group[1] = "subroutineDec" -> build_subroutine_dec(w, tree)
           [] group[1] = "parameterList" -> build_parameterList_arm(w, tree)
           [] group[1] = "varDec" -> build_varDec_arm(w, tree)
           [] group[1] = "subroutineBody" -> build_subroutine_body(w, tree)
           [] OTHER -> [ok |-> FALSE, w |-> w, result |-> <<>>]

(***************************************************************************)
(* The source programs of the model, as token lists.  Lexeme classifies a  *)
(* lexeme the way the scanner's build_token does for the lexemes used here:*)
(* one symbol character, a keyword, a string constant, digits, or an       *)
(* identifier.                                                             *)
(***************************************************************************)
is_symbol(c) ==
    c \in {"{", "}", "(", ")", "[", "]", ".", ",", ";", "+", "-", "*", "/",
           "&", "|", ">", "<", "=", "~"}

is_keyword(value) ==
    value \in {"class", "constructor", "function", "method", "field", "static",
               "var", "int", "char", "boolean", "void", "true", "false", "null",
               "this", "let", "do", "if", "else", "while", "return"}

Digits == {"0", "1", "2", "3", "4", "5", "6", "7", "8", "9"}

\* the lexeme of the string constant of text: the text between two quotes
Quoted(text) == "\"" \o text \o "\""

\* the texts of the string constants of the programs
StringTexts ==
    {"class", "{", "}", "(", ")", "if", "else", "return", ";", "Hi", ""}

Lexeme(value) ==
    IF is_symbol(value) THEN TokenItem_new(value, "Symbol")
    ELSE IF is_keyword(value) THEN TokenItem_new(value, "Keyword")
    ELSE IF \E text \in StringTexts : value = Quoted(text)
    THEN TokenItem_new(CHOOSE text \in StringTexts : value = Quoted(text),
                       "String")
    ELSE IF value \in Digits THEN TokenItem_new(value, "Integer")
    ELSE TokenItem_new(value, "Identifier")

Lex(lexemes) == [i \in 1..Len(lexemes) |-> Lexeme(lexemes[i])]

RECURSIVE Flatten(_)
Flatten(seqs) == IF seqs = <<>> THEN <<>> ELSE Head(seqs) \o Flatten(Tail(seqs))

RECURSIVE SepBy(_, _)
SepBy(seqs, sep) ==
    IF Len(seqs) <= 1 THEN Flatten(seqs)
    ELSE Head(seqs) \o sep \o SepBy(Tail(seqs), sep)

FieldPool == <<"x", "y", "z", "q">>
ParamPool == << <<"Point", "a">>, <<"int", "b">>, <<"int", "c">>,
                <<"boolean", "d">> >>
LocalPool == <<"v", "w", "u", "t">>

\* field Point x, y; static Point s;
ClassVarDecs(nf, ns) ==
    (IF nf = 0 THEN <<>>
     ELSE <<"field", "Point">>
          \o SepBy([i \in 1..nf |-> <<FieldPool[i]>>], <<",">>) \o <<";">>)
    \o (IF ns = 0 THEN <<>> ELSE <<"static", "Point", "s", ";">>)

Params(np) == SepBy([i \in 1..np |-> ParamPool[i]], <<",">>)

\* var Point v; var int w, u;
Locals(nl) ==
    (IF nl = 0 THEN <<>> ELSE <<"var", "Point", "v", ";">>)
    \o (IF nl <= 1 THEN <<>>
        ELSE <<"var", "int">>
             \o SepBy([i \in 1..(nl - 1) |-> <<LocalPool[i + 1]>>], <<",">>)
             \o <<";">>)

SubroutineKinds == {"constructor", "function", "method"}

ReturnType(kind) ==
    CASE kind = "constructor" -> "Main"
      [] kind = "function" -> "void"
      [] kind = "method" -> "int"

Subroutine(kind, name, np, nl, body) ==
    <<kind, ReturnType(kind), name, "(">> \o Params(np) \o <<")", "{">>
    \o Locals(nl) \o body \o <<"}">>

Class(classVarDecs, subroutines) ==
    <<"class", "Main", "{">> \o classVarDecs \o subroutines \o <<"}">>

\* let n = n; for every declared name n, then return;
Visible(nf, ns, np, nl) ==
    [i \in 1..nf |-> FieldPool[i]] \o (IF ns = 0 THEN <<>> ELSE <<"s">>)
    \o [i \in 1..np |-> ParamPool[i][2]] \o [i \in 1..nl |-> LocalPool[i]]

RefBody(nf, ns, np, nl) ==
    LET names == Visible(nf, ns, np, nl) IN
    Flatten([i \in 1..Len(names) |-> <<"let", names[i], "=", names[i], ";">>])
    \o <<"return", ";">>

\* Declarations: every number of fields, statics, parameters and locals in
\* a first subroutine of every kind, alone or followed by a second one.
Seconds(nf, ns) ==
    {<<>>} \cup { Subroutine(k2, "g", n2, n2, RefBody(nf, ns, n2, n2)) :
                    k2 \in SubroutineKinds, n2 \in 0..1 }

DeclPrograms ==
    UNION { { Class(ClassVarDecs(nf, ns),
                    Subroutine(k1, "f", np, nl, RefBody(nf, ns, np, nl)) \o second) :
                k1 \in SubroutineKinds, np \in 0..MaxParams,
                nl \in 0..MaxLocals, second \in Seconds(nf, ns) } :
            nf \in 0..MaxFields, ns \in 0..1 }

\* Control flow: every list of at most MaxStmts statements built from
\* return, while, if and if-else.
While(body) == <<"while", "(", "true", ")", "{">> \o body \o <<"}">>
If(body) == <<"if", "(", "false", ")", "{">> \o body \o <<"}">>
IfElse(body, other) == If(body) \o <<"else", "{">> \o other \o <<"}">>

RECURSIVE StmtLists(_), Stmts(_)
\* the statements with exactly k statement nodes
Stmts(k) ==
    (IF k = 1 THEN {<<"return", ";">>} ELSE {})
    \cup { While(b) : b \in StmtLists(k - 1) }
    \cup { If(b) : b \in StmtLists(k - 1) }
    \cup UNION { { IfElse(b, o) : b \in StmtLists(i), o \in StmtLists(k - 1 - i) } :
                 i \in 0..(k - 1) }

\* the statement lists with exactly n statement nodes
StmtLists(n) ==
    IF n = 0 THEN {<<>>}
    ELSE UNION { { s \o r : s \in Stmts(k), r \in StmtLists(n - k) } : k \in 1..n }

CtrlPrograms ==
    { Class(<<>>, Subroutine("function", "f", 0, 0, body)
                  \o Subroutine("method", "g", 0, 0, While(<<>>))) :
        body \in UNION { StmtLists(n) : n \in 0..MaxStmts } }

\* Calls: every call shape, in a do statement and in a term, with every
\* kind of receiver and 0..MaxArgs arguments.
ArgPool == << <<"1">>, <<"a">>, <<"v", ".", "m", "(", "2", ")">>,
              <<"x", "+", "1">> >>

Call(receiver, n) ==
    (IF receiver = "" THEN <<>> ELSE <<receiver, ".">>)
    \o <<"m", "(">> \o SepBy([i \in 1..n |-> ArgPool[i]], <<",">>) \o <<")">>

Receivers == {"", "x", "s", "a", "v", "Out"}

CallPrograms ==
    { Class(ClassVarDecs(1, 1),
            Subroutine(k, "f", 1, 1, stmt \o <<"return", ";">>)) :
        k \in SubroutineKinds,
        stmt \in UNION { { <<"do">> \o Call(r, n) \o <<";">>,
                           <<"let", "v", "=">> \o Call(r, n) \o <<";">> } :
                         r \in Receivers, n \in 0..MaxArgs } }

\* Programs at the edges: an empty class, a class without subroutines,
\* programs the parser or the generator rejects, and a subroutine whose
\* locals are declared in a list and in a declaration of one name.
EdgePrograms ==
    { Class(<<>>, <<>>),
      Class(ClassVarDecs(1, 1), <<>>),
      <<"Main", "{", "}">>,
      <<"class", "Main", "{">>,
      <<"class", "Main", "{", "field", "Point", "x", ",", "x", ";", "}">>,
      <<"class", "Main", "{", "field", "Point", "x", ";", "static", "int", "x",
        ";", "}">>,
      Class(ClassVarDecs(1, 0),
            <<"function", "void", "f", "(", "int", "x", ")", "{", "return", ";",
              "}">>),
      Class(ClassVarDecs(0, 1),
            <<"method", "void", "f", "(", ")", "{", "var", "int", "s", ";",
              "return", ";", "}">>),
      Class(<<>>,
            <<"function", "void", "f", "(", "int", "a", ")", "{", "var", "int",
              "a", ";", "return", ";", "}">>),
      Class(<<>>, Subroutine("function", "f", 0, 0,
                             <<"let", "q", "=", "1", ";", "return", ";">>)),
      Class(ClassVarDecs(1, 1),
            <<"function", "void", "f", "(", "int", "a", ")", "{",
              "var", "int", "v", ",", "w", ";", "var", "Point", "u", ";",
              "return", ";", "}">>) }

\* Expressions: let v = t0 op1 t1 ... opn tn; for every list of at most
\* MaxOps operators, and the two groupings of two operators by parentheses.
OpPool == <<"+", "-", "*", "/", "&", "|", "<", ">", "=">>

TermPool == <<"1", "a", "3", "v">>

RECURSIVE OpLists(_)
\* the lists of n indexes of OpPool
OpLists(n) ==
    IF n = 0 THEN {<<>>}
    ELSE { <<o>> \o r : o \in 1..Len(OpPool), r \in OpLists(n - 1) }

Operation(ops) ==
    <<TermPool[1]>>
    \o Flatten([k \in 1..Len(ops) |-> <<OpPool[ops[k]], TermPool[k + 1]>>])

Grouped ==
    UNION { { <<"(", "1", o1, "a", ")", o2, "3">>,
              <<"1", o1, "(", "a", o2, "3", ")">> } :
            o1 \in {"+", "<"}, o2 \in {"*", "-"} }

ExprPrograms ==
    { Class(<<>>, Subroutine("function", "f", 1, 1,
                             <<"let", "v", "=">> \o e \o <<";", "return", ";">>)) :
        e \in { Operation(ops) : ops \in UNION { OpLists(n) : n \in 0..MaxOps } }
               \cup Grouped }

\* Arrays: let t[i] = e; for every kind of destination, with indexes and
\* right-hand sides that read array elements themselves.
IndexPool == { <<"1">>, <<"a", "+", "1">>, <<"v", "[", "2", "]">> }

ValuePool == { <<"1">>, <<"a", "[", "2", "]">>,
               <<"v", "[", "a", "[", "1", "]", "]", "+", "3">> }

ArrayPrograms ==
    { Class(ClassVarDecs(1, 1),
            Subroutine("function", "f", 1, 1,
                       <<"let", t, "[">> \o i \o <<"]", "=">> \o e
                       \o <<";", "return", ";">>)) :
        t \in {"x", "s", "a", "v"}, i \in IndexPool, e \in ValuePool }

\* Terminals: a class with an if-else, and the same with one of its
\* keywords or symbols written as a string constant of the same text.
TerminalBase ==
    Class(<<>>, Subroutine("function", "f", 0, 0,
                           IfElse(<<>>, <<>>) \o <<"return", ";">>))

TerminalPrograms ==
    {TerminalBase}
    \cup { [TerminalBase EXCEPT ![p] = Quoted(TerminalBase[p])] :
             p \in {q \in 1..Len(TerminalBase) : TerminalBase[q] \in StringTexts} }

\* Parameter lists: a comma before the first pair, no comma between two
\* pairs, a comma after the last pair, two commas, a comma alone.
ParamListPool ==
    { <<",", "int", "a">>,
      <<"int", "a", "int", "b">>,
      <<"int", "a", ",">>,
      <<"int", "a", ",", ",", "int", "b">>,
      <<"int", "a", "Point", "b", ",", "int", "c">>,
      <<",">> }

ParamListPrograms ==
    { Class(<<>>, <<"function", "void", "f", "(">> \o list
                  \o <<")", "{", "return", ";", "}">>) :
        list \in ParamListPool }

\* Terms: every kind of term but the calls and the array elements of the
\* families above, as the value of a let, the argument of a do and the
\* condition of a while and of an if-else whose blocks hold let and do
\* statements.
TermKinds ==
    { <<"-", "1">>, <<"~", "a">>, <<"-", "(", "a", "+", "1", ")">>,
      <<"~", "-", "v">>, <<"true">>, <<"false">>, <<"null">>, <<"this">>,
      <<Quoted("Hi")>>, <<Quoted("")>>, <<"(", "(", "3", ")", ")">>,
      <<"Out", ".", "m", "(", Quoted("Hi"), ",", "-", "a", ")">> }

TermPrograms ==
    { Class(<<>>, Subroutine("method", "f", 1, 1,
                             <<"let", "v", "=">> \o t \o <<";", "do", "m", "(">>
                             \o t \o <<")", ";", "while", "(">> \o t
                             \o <<")", "{", "let", "a", "[", "1", "]", "=">> \o t
                             \o <<";", "}", "if", "(">> \o t
                             \o <<")", "{", "do", "v", ".", "m", "(", ")", ";",
                                  "}", "else", "{", "let", "a", "=">> \o t
                             \o <<";", "}", "return", ";">>)) :
        t \in TermKinds }

\* what follows the closing brace of a class in a stream
Trails ==
    { <<"}">>, <<"x", ";">>, <<Quoted("}"), "{">>,
      <<"function", "void", "g", "(", ")", "{", "return", ";", "}">>,
      <<"class", "B", "{", "}">> }

\* classes that parse, each followed by a trail
TrailingBases ==
    { Class(<<>>, <<>>),
      Class(<<"field", "int", "x", ";">>,
            Subroutine("method", "f", 1, 1,
                       While(IfElse(<<>>, <<>>)) \o <<"return", ";">>)) }

TrailingPrograms == { base \o trail : base \in TrailingBases, trail \in Trails }

Programs ==
    DeclPrograms \cup TermPrograms \cup CtrlPrograms \cup CallPrograms \cup EdgePrograms
    \cup ExprPrograms \cup ArrayPrograms \cup TerminalPrograms
    \cup ParamListPrograms \cup TrailingPrograms

(***************************************************************************)
(* tokenizer.rs: process_code and build_token.  A text is the sequence of  *)
(* its chars, each a string of one char; the parameter code is named chars *)
(* here and code[a..b] is SubSeq(chars, a + 1, b).  The texts are ASCII,   *)
(* where the char index enumerate() gives is the byte index of the slices. *)
(***************************************************************************)
Quote == "\""

\* char::is_numeric on the chars of the model
is_numeric(c) == c \in Digits

RECURSIVE Text(_)
\* the string of a sequence of chars
Text(chars) == IF chars = <<>> THEN "" ELSE Head(chars) \o Text(Tail(chars))

\* value.replace("\"", "")
replace_quote(value) == SelectSeq(value, LAMBDA c : c # Quote)

\* is_string: [ok, result]; ok = FALSE is the panic "Incomplete string"
is_string(value) ==
    IF value # <<>> /\ value[1] = Quote
    THEN [ok |-> value[Len(value)] = Quote, result |-> TRUE]
    ELSE [ok |-> TRUE, result |-> FALSE]

I16_MAX == 32767

\* value.parse::<i16>() on digits: Some(n), None where the number leaves i16
\* (the accumulation is checked at every digit) or value is empty
DigitValue(c) ==
    CASE c = "0" -> 0 [] c = "1" -> 1 [] c = "2" -> 2 [] c = "3" -> 3
      [] c = "4" -> 4 [] c = "5" -> 5 [] c = "6" -> 6 [] c = "7" -> 7
      [] c = "8" -> 8 [] c = "9" -> 9

\* parse with the range of u16
RECURSIVE parse_u16_from(_, _, _)
parse_u16_from(value, i, n) ==
    IF i > Len(value) THEN Some(n)
    ELSE IF 10 * n + DigitValue(value[i]) > 2 * I16_MAX + 1 THEN None
    ELSE parse_u16_from(value, i + 1, 10 * n + DigitValue(value[i]))

RECURSIVE parse_i16_from(_, _, _)
parse_i16_from(value, i, n) ==
    IF i > Len(value) THEN Some(n)
    ELSE IF 10 * n + DigitValue(value[i]) > I16_MAX THEN None
    ELSE parse_i16_from(value, i + 1, 10 * n + DigitValue(value[i]))

parse_i16(value) == IF value = <<>> THEN None ELSE parse_i16_from(value, 1, 0)

\* is_integer: [ok, result]; ok = FALSE is the panic "Invalid numeric value"
is_integer(value) ==
    IF \E i \in 1..Len(value) : ~is_numeric(value[i])
    THEN [ok |-> TRUE, result |-> FALSE]
    ELSE [ok |-> parse_i16(value) # None, result |-> TRUE]

\* build_token: [ok, token]
build_token(value) ==
    IF Len(value) = 1 /\ is_symbol(value[1])
    THEN [ok |-> TRUE, token |-> TokenItem_new(Text(value), "Symbol")]
    ELSE IF is_keyword(Text(value))
    THEN [ok |-> TRUE, token |-> TokenItem_new(Text(value), "Keyword")]
    ELSE IF ~is_string(value).ok THEN [ok |-> FALSE, token |-> NoToken]
    ELSE IF is_string(value).result
    THEN [ok |-> TRUE,
          token |-> TokenItem_new(Text(replace_quote(value)), "String")]
    ELSE IF ~is_integer(value).ok THEN [ok |-> FALSE, token |-> NoToken]
    ELSE IF is_integer(value).result
    THEN [ok |-> TRUE,
          token |-> TokenItem_new(Text(replace_quote(value)), "Integer")]
    ELSE [ok |-> TRUE, token |-> TokenItem_new(Text(value), "Identifier")]

\* the locals of process_code before its loop
process_code_begin ==
    [ok |-> TRUE, start_token_position |-> 0, current_type |-> "None",
     result |-> <<>>]

\* result.push(build_token(value))
push_token(s, value) ==
    IF ~build_token(value).ok THEN [s EXCEPT !.ok = FALSE]
    ELSE [s EXCEPT !.result = Append(@, build_token(value).token)]

\* if i - start_token_position > 0 { result.push(build_token(&code[start..i])) }
push_running(chars, s, i) ==
    IF i - s.start_token_position > 0
    THEN push_token(s, SubSeq(chars, s.start_token_position + 1, i))
    ELSE s

\* start_token_position = start; current_type = current_type
restart(s, start, current_type) ==
    IF ~s.ok THEN s
    ELSE [s EXCEPT !.start_token_position = start,
                   !.current_type = current_type]

\* process_code_other without the test of a running Integer
process_code_other_lenient(s, i, c) ==
    IF is_numeric(c) /\ s.current_type = "None"
    THEN restart(s, i, "Integer")
    ELSE IF s.current_type = "None" THEN restart(s, i, "Identifier")
    ELSE s

\* the part of the loop body after the tests of quote, space and symbol
process_code_other(s, i, c) ==
    IF is_numeric(c) /\ s.current_type = "None"
    THEN restart(s, i, "Integer")
    ELSE IF s.current_type = "Integer" /\ ~is_numeric(c)
    THEN [s EXCEPT !.ok = FALSE]
    ELSE IF s.current_type = "None" THEN restart(s, i, "Identifier")
    ELSE s

\* one pass through the loop of process_code, for (i, c)
process_code_char(chars, s, i) ==
    IF chars[i + 1] = Quote
    THEN CASE s.current_type = "None" -> restart(s, i, "String")
           [] s.current_type = "String" ->
                restart(push_token(s, SubSeq(chars, s.start_token_position + 1,
                                             i + 1)),
                        i + 1, "None")
           [] OTHER -> [s EXCEPT !.ok = FALSE]
    ELSE IF s.current_type = "String" THEN s
    ELSE IF chars[i + 1] = " "
    THEN restart(push_running(chars, s, i), i + 1, "None")
    ELSE IF is_symbol(chars[i + 1])
    THEN restart(IF push_running(chars, s, i).ok
                 THEN push_token(push_running(chars, s, i), <<chars[i + 1]>>)
                 ELSE push_running(chars, s, i),
                 i + 1, "None")
    ELSE process_code_other(s, i, chars[i + 1])

\* process_code after its loop
process_code_rest(chars, s) ==
    IF Len(chars) - s.start_token_position > 0
    THEN push_token(s, SubSeq(chars, s.start_token_position + 1, Len(chars)))
    ELSE s

\* Tokenizer::new after process_code
Tokenizer_new(tokens) == [tokens |-> tokens, cursor |-> 0]

RECURSIVE process_code_loop(_, _, _)
\* the loop of process_code from its pass for (i, code[i]) on
process_code_loop(chars, s, i) ==
    IF ~s.ok \/ i >= Len(chars) THEN s
    ELSE process_code_loop(chars, process_code_char(chars, s, i), i + 1)

\* what process_code does with the locals s its loop leaves
process_code_after(chars, s) == IF s.ok THEN process_code_rest(chars, s) ELSE s

\* process_code: [ok, result], with the other locals
process_code(chars) ==
    process_code_after(chars, process_code_loop(chars, process_code_begin, 0))

(***************************************************************************)
(* builder.rs: build_content.  The content of a file is the sequence of    *)
(* its chars, "\n" the line ending.                                        *)
(***************************************************************************)
\* TRUE where the chars of word stand in chars from index i (from 1) on
StartsAt(chars, i, word) ==
    /\ i + Len(word) - 1 <= Len(chars)
    /\ SubSeq(chars, i, i + Len(word) - 1) = word

RECURSIVE FindFrom(_, _, _)
\* the least index from i on where word stands in chars, 0 if there is none
FindFrom(chars, i, word) ==
    IF i + Len(word) - 1 > Len(chars) THEN 0
    ELSE IF StartsAt(chars, i, word) THEN i
    ELSE FindFrom(chars, i + 1, word)

BlockOpen == <<"/", "*">>
BlockClose == <<"*", "/">>
LineComment == <<"/", "/">>

RECURSIVE clear_special_coments_from(_, _)
\* replace_all of /\*(.|\r\n|\r|\n)*?\*/ by "": the leftmost match starts at
\* the first "/*" that a "*/" follows, and the lazy star ends it at the first
\* such "*/"; the search goes on after the match.
clear_special_coments_from(chars, i) ==
    IF i > Len(chars) THEN <<>>
    ELSE IF StartsAt(chars, i, BlockOpen)
              /\ FindFrom(chars, i + 2, BlockClose) # 0
    THEN clear_special_coments_from(chars,
                                    FindFrom(chars, i + 2, BlockClose) + 2)
    ELSE <<chars[i]>> \o clear_special_coments_from(chars, i + 1)

clear_special_coments(chars) == clear_special_coments_from(chars, 1)

RECURSIVE str_lines_from(_, _, _)
\* content.lines(): the text between the "\n", with no last line where the
\* text ends with "\n" or is empty.  The "\r" before a "\n" is left in the
\* line here: clean_line trims it away.
str_lines_from(chars, i, line) ==
    IF i > Len(chars) THEN IF line = <<>> THEN <<>> ELSE <<line>>
    ELSE IF chars[i] = "\n"
    THEN <<line>> \o str_lines_from(chars, i + 1, <<>>)
    ELSE str_lines_from(chars, i + 1, Append(line, chars[i]))

str_lines(chars) == str_lines_from(chars, 1, <<>>)

\* char::is_whitespace on the chars of the model
is_whitespace(c) == c \in {" ", "\t", "\r", "\n"}

RECURSIVE trim_start(_), trim_end(_)
trim_start(line) ==
    IF line # <<>> /\ is_whitespace(Head(line)) THEN trim_start(Tail(line))
    ELSE line

trim_end(line) ==
    IF line # <<>> /\ is_whitespace(line[Len(line)])
    THEN trim_end(SubSeq(line, 1, Len(line) - 1))
    ELSE line

str_trim(line) == trim_end(trim_start(line))

\* line.split("//").collect()[0]
split_first(line) ==
    IF FindFrom(line, 1, LineComment) = 0 THEN line
    ELSE SubSeq(line, 1, FindFrom(line, 1, LineComment) - 1)

clean_line(line) == str_trim(split_first(line))

RECURSIVE build_content_loop(_, _)
\* code_lines after the loop of build_content has taken the lines from i on
build_content_loop(ls, i) ==
    IF i > Len(ls) THEN <<>>
    ELSE IF Len(clean_line(ls[i])) = 0 THEN build_content_loop(ls, i + 1)
    ELSE <<clean_line(ls[i])>> \o build_content_loop(ls, i + 1)

\* code_lines at the end of build_content
code_lines(chars) ==
    build_content_loop(str_lines(clear_special_coments(chars)), 1)

RECURSIVE join(_)
\* code_lines.join("")
join(ls) == IF ls = <<>> THEN <<>> ELSE Head(ls) \o join(Tail(ls))

build_content(chars) == join(code_lines(chars))

(***************************************************************************)
(* main.rs: print_tokens.  What fs::write puts in a file is not modelled,  *)
(* only that the file is written.                                          *)
(***************************************************************************)
RECURSIVE print_tokens_loop(_)
\* the tokenizer as the loop of print_tokens leaves it
print_tokens_loop(tokenizer) ==
    IF has_next(tokenizer)
    THEN print_tokens_loop(get_next(tokenizer).tokenizer)
    ELSE tokenizer

(***************************************************************************)
(* Spec: the compilation of one class, as the tests of writer.rs run it:   *)
(* Tokenizer::new, ClassNode::build, VmWriter::new, build.  One step is    *)
(* one pass through a loop of ClassNode::build or of build_class, with     *)
(* everything it calls.                                                    *)
(***************************************************************************)
\* the variables of SpecST, which a compilation leaves alone
st_vars == <<st_table, st_before, st_op, st_ok, st_cloned>>

compile_vars == <<stream, pc, root, p_symbol_table, writer, code, w_next_item>>

\* the variables of SpecLex
lex_vars == <<lex_code, lex_pc, lex_i, lex_scan, lex_tokenizer, lex_ret>>

\* the variables of SpecFile
file_vars ==
    <<file_content, file_pc, clean_code, file_tokenizer, file_root, written>>

panicked(ok, next) == IF ok THEN next ELSE "panic"

ClassNode_build_begin ==
    /\ pc = "start"
    /\ LET Returns(b) ==
                /\ stream' = b.tokenizer
                /\ root' = b.root
                /\ p_symbol_table' = b.symbol_table
                /\ pc' = panicked(b.ok, "classVarDec")
       IN  Returns(ClassNode_build_head(stream))
    /\ UNCHANGED <<writer, code, w_next_item>>
    /\ UNCHANGED <<st_vars, lex_vars, file_vars>>

VarDec_build_class_iter ==
    /\ pc = "classVarDec"
    /\ build_class_case(stream) # None
    /\ LET Returns(r) ==
                /\ stream' = r.tokenizer
                /\ root' = IF r.ok THEN push_item(root, r.root) ELSE root
                /\ p_symbol_table' = r.symbol_table
                /\ pc' = panicked(r.ok, "classVarDec")
       IN  Returns(VarDec_build_field(stream, "classVarDec",
                                      build_class_case(stream)[1],
                                      p_symbol_table))
    /\ UNCHANGED <<writer, code, w_next_item>>
    /\ UNCHANGED <<st_vars, lex_vars, file_vars>>

VarDec_build_class_break ==
    /\ pc = "classVarDec"
    /\ build_class_case(stream) = None
    /\ pc' = "subroutineDec"
    /\ UNCHANGED <<stream, root, p_symbol_table, writer, code, w_next_item>>
    /\ UNCHANGED <<st_vars, lex_vars, file_vars>>

SubroutineDec_build_iter ==
    /\ pc = "subroutineDec"
    /\ SubroutineDec_build_more(stream)
    /\ LET Returns(r) ==
                /\ stream' = r.tokenizer
                /\ root' = IF r.ok THEN push_item(root, r.root) ELSE root
                /\ p_symbol_table' = r.symbol_table
                /\ pc' = panicked(r.ok, "subroutineDec")
       IN  Returns(SubroutineDec_build_subroutine(stream, p_symbol_table))
    /\ UNCHANGED <<writer, code, w_next_item>>
    /\ UNCHANGED <<st_vars, lex_vars, file_vars>>

ClassNode_build_end ==
    /\ pc = "subroutineDec"
    /\ ~SubroutineDec_build_more(stream)
    /\ LET Returns(b) ==
                /\ stream' = b.tokenizer
                /\ root' = b.root
                /\ pc' = panicked(b.ok, "parsed")
       IN  Returns(ClassNode_build_close(
                       [ok |-> TRUE, tokenizer |-> stream, root |-> root,
                        symbol_table |-> p_symbol_table]))
    /\ UNCHANGED <<p_symbol_table, writer, code, w_next_item>>
    /\ UNCHANGED <<st_vars, lex_vars, file_vars>>

VmWriter_build_class_begin ==
    /\ pc = "parsed"
    /\ LET h == build_class_head(VmWriter_new, root) IN
        /\ writer' = h.w
        /\ code' = h.result
        /\ pc' = panicked(h.ok, IF h.returned THEN "done" ELSE "class")
    /\ w_next_item' = 3
    /\ UNCHANGED <<stream, root, p_symbol_table>>
    /\ UNCHANGED <<st_vars, lex_vars, file_vars>>

VmWriter_build_class_iter ==
    /\ pc = "class"
    /\ build_class_more(root, w_next_item)
    /\ LET Returns(r) ==
                /\ writer' = r.w
                /\ code' = IF r.ok THEN code \o r.result ELSE code
                /\ pc' = panicked(r.ok, "class")
       IN  Returns(VmWriter_build(writer, root.nodes[w_next_item + 1]))
    /\ w_next_item' = w_next_item + 1
    /\ UNCHANGED <<stream, root, p_symbol_table>>
    /\ UNCHANGED <<st_vars, lex_vars, file_vars>>

VmWriter_build_class_end ==
    /\ pc = "class"
    /\ ~build_class_more(root, w_next_item)
    /\ pc' = "done"
    /\ UNCHANGED <<stream, root, p_symbol_table, writer, code, w_next_item>>
    /\ UNCHANGED <<st_vars, lex_vars, file_vars>>

(***************************************************************************)
(* SpecST: any sequence of add calls on one symbol table, cloned at most   *)
(* once on the way, as build_subroutine clones the class table.            *)
(***************************************************************************)
NamePool == <<"x", "this", "a", "b", "c", "d">>
KindPool == <<"int", "Main", "Point", "int", "boolean", "char">>
NameIndexes == 1..(MaxSymbols + 1)
Descriptors == {"field", "static", "var", "argument", "local"}

ST_add(symbol_type, n) ==
    /\ st_ok
    /\ Len(st_table.symbols) < MaxSymbols \/ NamePool[n] \in DOMAIN st_table.indexes
    /\ LET Returns(r) ==
                /\ st_table' = r.st
                /\ st_ok' = r.ok
       IN  Returns(SymbolTable_add(st_table, symbol_type, KindPool[n], NamePool[n]))
    /\ st_before' = st_table
    /\ st_op' = [op |-> "add", symbol_type |-> symbol_type, name |-> NamePool[n]]
    /\ UNCHANGED st_cloned
    /\ UNCHANGED <<compile_vars, lex_vars, file_vars>>

ST_clone ==
    /\ st_ok
    /\ ~st_cloned
    /\ st_table' = SymbolTable_clone(st_table)
    /\ st_before' = st_table
    /\ st_op' = [op |-> "clone", symbol_type |-> "", name |-> ""]
    /\ st_cloned' = TRUE
    /\ UNCHANGED st_ok
    /\ UNCHANGED <<compile_vars, lex_vars, file_vars>>

\* the variables of the other specification, at rest
IdleST ==
    /\ st_table = SymbolTable_new
    /\ st_before = SymbolTable_new
    /\ st_op = [op |-> "new", symbol_type |-> "", name |-> ""]
    /\ st_ok = TRUE
    /\ st_cloned = FALSE

IdleCompile ==
    /\ stream = [tokens |-> <<>>, cursor |-> 0]
    /\ pc = "idle"
    /\ root = new_root("class")
    /\ p_symbol_table = SymbolTable_new
    /\ writer = VmWriter_new
    /\ code = <<>>
    /\ w_next_item = 0

IdleLex ==
    /\ lex_code = <<>>
    /\ lex_pc = "idle"
    /\ lex_i = 0
    /\ lex_scan = process_code_begin
    /\ lex_tokenizer = Tokenizer_new(<<>>)
    /\ lex_ret = [op |-> "none", before |-> Tokenizer_new(<<>>), value |-> None]

IdleFile ==
    /\ file_content = <<>>
    /\ file_pc = "idle"
    /\ clean_code = <<>>
    /\ file_tokenizer = Tokenizer_new(<<>>)
    /\ file_root = new_root("class")
    /\ written = {}

InitST == IdleCompile /\ IdleST /\ IdleLex /\ IdleFile

NextST ==
    \/ \E d \in Descriptors, n \in NameIndexes : ST_add(d, n)
    \/ ST_clone

vars == <<compile_vars, st_vars, lex_vars, file_vars>>

SpecST == InitST /\ [][NextST]_vars

Init ==
    /\ IdleST
    /\ IdleLex
    /\ IdleFile
    /\ stream \in {[tokens |-> Lex(p), cursor |-> 0] : p \in Programs}
    /\ pc = "start"
    /\ root = new_root("class")
    /\ p_symbol_table = SymbolTable_new
    /\ writer = VmWriter_new
    /\ code = <<>>
    /\ w_next_item = 0

Next ==
    \/ ClassNode_build_begin
    \/ VarDec_build_class_iter
    \/ VarDec_build_class_break
    \/ SubroutineDec_build_iter
    \/ ClassNode_build_end
    \/ VmWriter_build_class_begin
    \/ VmWriter_build_class_iter
    \/ VmWriter_build_class_end

Spec == Init /\ [][Next]_vars

(***************************************************************************)
(* SpecLex: Tokenizer::new on a text, one step for every pass through the  *)
(* loop of process_code and one for what follows the loop, and then any    *)
(* sequence of calls of get_next, peek_next, has_next and reset on the     *)
(* Tokenizer.                                                              *)
(***************************************************************************)
Alphabet == {Quote, " ", ";", "a", "1"}

NumberDigits == {"0", "2", "3", "6", "7", "8"}

RECURSIVE Texts(_, _)
\* the texts of exactly n chars of alphabet
Texts(alphabet, n) ==
    IF n = 0 THEN {<<>>}
    ELSE { Append(t, c) : t \in Texts(alphabet, n - 1), c \in alphabet }

\* texts with keywords, alone, inside a word and inside a string, and the
\* text of the test test_process_code_sum_two_numbers
WordCodes ==
    { <<"d", "o">>, <<"d", "o", " ", "a", ";">>, <<"d", "o", "a">>,
      <<"a", "d", "o">>, <<"i", "f", "(", "1", ")", "d", "o">>,
      <<Quote, "d", "o", " ", ";", " ", Quote, "d", "o">>,
      <<"d", "o", Quote, ";", "(", Quote, " ", " ", "i", "f">>,
      <<"5", " ", "+", " ", " ", " ", "7">> }

Codes ==
    UNION { Texts(Alphabet, n) : n \in 0..MaxCode }
    \cup UNION { Texts(NumberDigits, n) : n \in 1..MaxDigits }
    \cup WordCodes

InitLex ==
    /\ IdleCompile /\ IdleST /\ IdleFile
    /\ lex_code \in Codes
    /\ lex_pc = "scan"
    /\ lex_i = 0
    /\ lex_scan = process_code_begin
    /\ lex_tokenizer = Tokenizer_new(<<>>)
    /\ lex_ret = [op |-> "none", before |-> Tokenizer_new(<<>>), value |-> None]

process_code_iter ==
    /\ lex_pc = "scan"
    /\ lex_i < Len(lex_code)
    /\ lex_scan' = process_code_char(lex_code, lex_scan, lex_i)
    /\ lex_i' = lex_i + 1
    /\ lex_pc' = panicked(process_code_char(lex_code, lex_scan, lex_i).ok, "scan")
    /\ UNCHANGED <<lex_code, lex_tokenizer, lex_ret>>
    /\ UNCHANGED <<compile_vars, st_vars, file_vars>>

Tokenizer_new_return ==
    /\ lex_pc = "scan"
    /\ lex_i = Len(lex_code)
    /\ lex_scan' = process_code_rest(lex_code, lex_scan)
    /\ lex_pc' = panicked(process_code_rest(lex_code, lex_scan).ok, "ready")
    /\ lex_tokenizer' =
          IF process_code_rest(lex_code, lex_scan).ok
          THEN Tokenizer_new(process_code_rest(lex_code, lex_scan).result)
          ELSE lex_tokenizer
    /\ UNCHANGED <<lex_code, lex_i, lex_ret>>
    /\ UNCHANGED <<compile_vars, st_vars, file_vars>>

Tokenizer_get_next ==
    /\ lex_pc = "ready"
    /\ lex_tokenizer' = get_next(lex_tokenizer).tokenizer
    /\ lex_ret' = [op |-> "get_next", before |-> lex_tokenizer,
                   value |-> get_next(lex_tokenizer).token]
    /\ UNCHANGED <<lex_code, lex_pc, lex_i, lex_scan>>
    /\ UNCHANGED <<compile_vars, st_vars, file_vars>>

Tokenizer_peek_next ==
    /\ lex_pc = "ready"
    /\ lex_ret' = [op |-> "peek_next", before |-> lex_tokenizer,
                   value |-> peek_next(lex_tokenizer)]
    /\ UNCHANGED <<lex_code, lex_pc, lex_i, lex_scan, lex_tokenizer>>
    /\ UNCHANGED <<compile_vars, st_vars, file_vars>>

Tokenizer_has_next ==
    /\ lex_pc = "ready"
    /\ lex_ret' = [op |-> "has_next", before |-> lex_tokenizer,
                   value |-> Some(has_next(lex_tokenizer))]
    /\ UNCHANGED <<lex_code, lex_pc, lex_i, lex_scan, lex_tokenizer>>
    /\ UNCHANGED <<compile_vars, st_vars, file_vars>>

Tokenizer_reset_call ==
    /\ lex_pc = "ready"
    /\ lex_tokenizer' = Tokenizer_reset(lex_tokenizer)
    /\ lex_ret' = [op |-> "reset", before |-> lex_tokenizer, value |-> None]
    /\ UNCHANGED <<lex_code, lex_pc, lex_i, lex_scan>>
    /\ UNCHANGED <<compile_vars, st_vars, file_vars>>

NextLex ==
    \/ process_code_iter
    \/ Tokenizer_new_return
    \/ Tokenizer_get_next
    \/ Tokenizer_peek_next
    \/ Tokenizer_has_next
    \/ Tokenizer_reset_call

SpecLex == InitLex /\ [][NextLex]_vars

(***************************************************************************)
(* SpecFile: parse_file of main.rs on the content of one source file:      *)
(* build_content, Tokenizer::new, print_tokens, ClassNode::build and the   *)
(* fs::write that follows, one step each.  A file is named by what         *)
(* replaces ".jack" in the name of the source file.                        *)
(***************************************************************************)
LinePool ==
    { <<"c", "l", "a", "s", "s", " ", "A", " ", "{">>,
      <<"}">>,
      <<"c", "l", "a", "s", "s">>,
      <<"A", "{">>,
      <<" ", "}", " ", "/", "/", "x">>,
      <<"/", "*">>,
      <<"*", "/">>,
      <<"s", "t", "a", "t", "i", "c", " ", "A", " ", "x", ";">>,
      <<"1", "a">> }

RECURSIVE JoinLines(_)
\* the text of the lines ls, a "\n" between two lines
JoinLines(ls) ==
    IF ls = <<>> THEN <<>>
    ELSE IF Len(ls) = 1 THEN ls[1]
    ELSE ls[1] \o <<"\n">> \o JoinLines(Tail(ls))

Contents ==
    { JoinLines(ls) : ls \in UNION { [1..n -> LinePool] : n \in 0..MaxLines } }

InitFile ==
    /\ IdleCompile /\ IdleST /\ IdleLex
    /\ file_content \in Contents
    /\ file_pc = "read"
    /\ clean_code = <<>>
    /\ file_tokenizer = Tokenizer_new(<<>>)
    /\ file_root = new_root("class")
    /\ written = {}

parse_file_build_content ==
    /\ file_pc = "read"
    /\ clean_code' = build_content(file_content)
    /\ file_pc' = "clean"
    /\ UNCHANGED <<file_content, file_tokenizer, file_root, written>>
    /\ UNCHANGED <<compile_vars, st_vars, lex_vars>>

parse_file_Tokenizer_new ==
    /\ file_pc = "clean"
    /\ file_tokenizer' =
          IF process_code(clean_code).ok
          THEN Tokenizer_new(process_code(clean_code).result)
          ELSE file_tokenizer
    /\ file_pc' = IF process_code(clean_code).ok THEN "tokens"
                  ELSE "panic in Tokenizer::new"
    /\ UNCHANGED <<file_content, clean_code, file_root, written>>
    /\ UNCHANGED <<compile_vars, st_vars, lex_vars>>

print_tokens ==
    /\ file_pc = "tokens"
    /\ file_tokenizer' = print_tokens_loop(file_tokenizer)
    /\ written' = written \cup {"T2.xml"}
    /\ file_pc' = "dumped"
    /\ UNCHANGED <<file_content, clean_code, file_root>>
    /\ UNCHANGED <<compile_vars, st_vars, lex_vars>>

parse_file_ClassNode_build ==
    /\ file_pc = "dumped"
    /\ file_tokenizer' = ClassNode_build(file_tokenizer).tokenizer
    /\ file_root' = IF ClassNode_build(file_tokenizer).ok
                    THEN ClassNode_build(file_tokenizer).root
                    ELSE file_root
    /\ file_pc' = IF ClassNode_build(file_tokenizer).ok THEN "parsed"
                  ELSE "panic in ClassNode::build"
    /\ UNCHANGED <<file_content, clean_code, written>>
    /\ UNCHANGED <<compile_vars, st_vars, lex_vars>>

parse_file_write ==
    /\ file_pc = "parsed"
    /\ written' = written \cup {"2.xml"}
    /\ file_pc' = "done"
    /\ UNCHANGED <<file_content, clean_code, file_tokenizer, file_root>>
    /\ UNCHANGED <<compile_vars, st_vars, lex_vars>>

NextFile ==
    \/ parse_file_build_content
    \/ parse_file_Tokenizer_new
    \/ print_tokens
    \/ parse_file_ClassNode_build
    \/ parse_file_write

SpecFile == InitFile /\ [][NextFile]_vars

(***************************************************************************)
(* Properties of the symbol table, checked under SpecST.                   *)
(***************************************************************************)
\* the symbols of category t, in insertion order
OfCategory(table, t) ==
    SelectSeq(table.symbols, LAMBDA symbol : symbol.symbol_type = t)

\* the segment a category is stated to map to
StatedSegment(t) ==
    CASE t = "StaticType" -> "static"
      [] t = "Field" -> "this"
      [] t = "Argument" -> "argument"
      [] t = "Local" -> "local"

\* C2: for every symbol of a table, get_push(name) is "push <segment> <slot>"
\* and get_pop(name) is "pop <segment> <slot>", with the segment static for
\* Static, this for Field, argument for Argument and local for Local.
C2_SegmentOfCategory ==
    \A i \in 1..Len(st_table.symbols) :
        LET symbol == st_table.symbols[i] IN
        /\ SymbolTable_get_push(st_table, symbol.name)
             = Some(<<"push", StatedSegment(symbol.symbol_type),
                      ToString(symbol.position)>>)
        /\ SymbolTable_get_pop(st_table, symbol.name)
             = Some(<<"pop", StatedSegment(symbol.symbol_type),
                      ToString(symbol.position)>>)

\* C3: after any sequence of adds, on a fresh table or on a clone, the
\* symbols of each category hold the slots 0..count-1 in insertion order and
\* the counter of the category is their number.
C3_SlotsPerCategory ==
    \A t \in SymbolType :
        /\ \A i \in 1..Len(OfCategory(st_table, t)) :
               get_position(OfCategory(st_table, t)[i]) = i - 1
        /\ st_table.types[t] = Len(OfCategory(st_table, t))

\* C3 witness: a clone that holds two symbols of one category around a
\* symbol of another, the last one added after the clone.
C3_Witness ==
    /\ st_ok /\ st_cloned /\ st_op.op = "add"
    /\ Len(st_table.symbols) = 3
    /\ st_table.symbols[1].symbol_type = st_table.symbols[3].symbol_type
    /\ st_table.symbols[2].symbol_type # st_table.symbols[1].symbol_type
    /\ Len(st_before.symbols) = 2

\* C4: an add of a name the table holds panics, whatever the two
\* categories, and leaves symbols, indexes and counters as they were; so does
\* such an add on a clone.
C4_DuplicateAddAborts ==
    (st_op.op = "add" /\ st_op.name \in DOMAIN st_before.indexes)
        => /\ ~st_ok
           /\ st_table.symbols = st_before.symbols
           /\ st_table.indexes = st_before.indexes
           /\ st_table.types = st_before.types

\* C4 witness: on a clone, an argument or local is added under the name of a
\* field or static of the table, with a valid descriptor.
C4_Witness ==
    /\ st_cloned /\ st_op.op = "add" /\ ~st_ok
    /\ st_op.symbol_type \in {"argument", "var"}
    /\ st_op.name \in DOMAIN st_before.indexes
    /\ SymbolTable_get(st_before, st_op.name)[1].symbol_type
         \in {"Field", "StaticType"}

(***************************************************************************)
(* Properties of a compilation, checked under Spec.                        *)
(***************************************************************************)
\* the value of the token that is child i (from 1) of tree
Value(tree, i) == tree.nodes[i].item[1].value

IsNamed(tree, name) == tree.name = Some(name)

\* node is the token of the keyword or symbol value
IsTerminal(node, value) ==
    /\ node.item # None
    /\ node.item[1].value = value
    /\ node.item[1].token_type \in {"Keyword", "Symbol"}

IsTypeLeaf(node) ==
    /\ node.item # None
    /\ \/ node.item[1].token_type = "Identifier"
       \/ node.item[1].token_type = "Keyword"
            /\ node.item[1].value \in type_keywords

IsIdentifierLeaf(node) ==
    node.item # None /\ node.item[1].token_type = "Identifier"

\* list is empty, or Type Id pairs with one "," between two pairs
IsParameterList(list) ==
    /\ Len(list.nodes) = 0 \/ Len(list.nodes) % 3 = 2
    /\ \A i \in 1..Len(list.nodes) :
          CASE i % 3 = 1 -> IsTypeLeaf(list.nodes[i])
            [] i % 3 = 2 -> IsIdentifierLeaf(list.nodes[i])
            [] OTHER -> IsTerminal(list.nodes[i], ",")

\* the names a subroutineDec node declares, in order: its parameterList is
\* Type Id (, Type Id)*, a varDec is var Type Id (, Id)* ;
DeclaredParameters(dec) ==
    [k \in 1..((Len(dec.nodes[5].nodes) + 1) \div 3) |->
        Value(dec.nodes[5], 3 * k - 1)]

VarDecNames(var_dec) ==
    [k \in 1..((Len(var_dec.nodes) - 2) \div 2) |-> Value(var_dec, 2 * k + 1)]

DeclaredLocals(dec) ==
    LET var_decs == SelectSeq(dec.nodes[7].nodes,
                              LAMBDA n : IsNamed(n, "varDec"))
    IN  Flatten([i \in 1..Len(var_decs) |-> VarDecNames(var_decs[i])])

SymbolNames(symbols) == [i \in 1..Len(symbols) |-> symbols[i].name]

\* the subroutineDec node the generator has just walked, if any
Built == pc \in {"class", "done"} /\ w_next_item > 3
         /\ IsNamed(root.nodes[w_next_item], "subroutineDec")

LastBuilt == root.nodes[w_next_item]

\* a term that is the identifier name alone
IdentifierTerm(name) == push(new_root("term"), TokenItem_new(name, "Identifier"))

\* table holds this as Argument 0 of type class_name and the k-th declared
\* parameter at k+1 if dec is a method, and the k-th parameter at k otherwise
StatedArguments(table, dec, class_name) ==
    LET method == Value(dec, 1) = "method"
        shift == IF method THEN 1 ELSE 0
        parameters == DeclaredParameters(dec)
    IN  /\ method =>
              /\ "this" \in DOMAIN table.indexes
              /\ SymbolTable_get(table, "this")[1].symbol_type = "Argument"
              /\ SymbolTable_get(table, "this")[1].position = 0
              /\ SymbolTable_get(table, "this")[1].kind = class_name
        /\ ~method => "this" \notin DOMAIN table.indexes
        /\ \A k \in 1..Len(parameters) :
              /\ parameters[k] \in DOMAIN table.indexes
              /\ SymbolTable_get(table, parameters[k])[1].symbol_type = "Argument"
              /\ SymbolTable_get(table, parameters[k])[1].position = k - 1 + shift

\* C1: the table of every method, the parser's and the generator's, holds
\* this as Argument 0 with the class as its type and the k-th declared
\* parameter at slot k+1, so that the first parameter is read by
\* "push argument 1"; functions and constructors hold no this and the k-th
\* parameter at slot k.
C1_MethodReceiver ==
    /\ \A i \in 1..Len(root.nodes) :
          IsNamed(root.nodes[i], "subroutineDec") =>
              StatedArguments(root.nodes[i].symbol_table[1], root.nodes[i],
                              Value(root, 2))
    /\ Built =>
          /\ StatedArguments(writer.symbol_table, LastBuilt, writer.class_name)
          /\ (Value(LastBuilt, 1) = "method"
                  /\ DeclaredParameters(LastBuilt) # <<>>) =>
              VmWriter_build(writer,
                             IdentifierTerm(DeclaredParameters(LastBuilt)[1])).result
                  = << <<"push", "argument", "1">> >>

\* table holds every symbol of class_table as class_table holds it
ClassSymbolsKept(table, class_table) ==
    \A name \in DOMAIN class_table.indexes :
        /\ name \in DOMAIN table.indexes
        /\ SymbolTable_get(table, name) = SymbolTable_get(class_table, name)

\* the Argument and Local symbols of table are at the slots 0, 1, .. and are
\* the parameters, where the parameterList has the shape Type Id (, Type Id)*,
\* and the locals dec declares, in order
OwnSymbols(table, dec) ==
    /\ IsParameterList(dec.nodes[5]) =>
          SymbolNames(OfCategory(table, "Argument")) = DeclaredParameters(dec)
    /\ SymbolNames(OfCategory(table, "Local")) = DeclaredLocals(dec)
    /\ \A t \in {"Argument", "Local"} :
          /\ \A i \in 1..Len(OfCategory(table, t)) :
                OfCategory(table, t)[i].position = i - 1
          /\ table.types[t] = Len(OfCategory(table, t))

\* C5: every subroutine is processed on a clone of the class table.  No
\* walk of a subroutineDec, by the parser or by the generator, changes the
\* class table; the table of every subroutine holds the symbols of the class
\* as the class holds them, and for arguments and locals exactly the ones
\* the subroutine declares, numbered from 0.
C5_SubroutineOnClone ==
    /\ [](/\ \A i \in 1..Len(root.nodes) :
                IsNamed(root.nodes[i], "subroutineDec") =>
                    /\ ClassSymbolsKept(root.nodes[i].symbol_table[1],
                                        p_symbol_table)
                    /\ OwnSymbols(root.nodes[i].symbol_table[1], root.nodes[i])
          /\ Built =>
                /\ ClassSymbolsKept(writer.symbol_table,
                                    writer.class_symbol_table)
                /\ OwnSymbols(writer.symbol_table, LastBuilt))
    /\ [][/\ pc = "subroutineDec" => p_symbol_table' = p_symbol_table
          /\ (pc = "class" /\ pc' = "class"
                  /\ IsNamed(root.nodes[w_next_item + 1], "subroutineDec"))
                => writer'.class_symbol_table = writer.class_symbol_table]_vars

\* C5 witness: the generator has walked the second subroutine of a class
\* with fields; both subroutines declare parameters and locals.
C5_Witness ==
    /\ Built /\ w_next_item > 4
    /\ IsNamed(root.nodes[w_next_item - 1], "subroutineDec")
    /\ DeclaredParameters(root.nodes[w_next_item - 1]) # <<>>
    /\ DeclaredLocals(root.nodes[w_next_item - 1]) # <<>>
    /\ DeclaredParameters(LastBuilt) # <<>>
    /\ DeclaredLocals(LastBuilt) # <<>>
    /\ OfCategory(writer.class_symbol_table, "Field") # <<>>
    /\ OfCategory(p_symbol_table, "Field") # <<>>

IsLabel(line) == line[1] = "label"

IsJump(line) == line[1] \in {"goto", "if-goto"}

\* the number of lines "label name" in lines
LabelCount(lines, name) ==
    Cardinality({j \in 1..Len(lines) : lines[j] = <<"label", name>>})

\* C6: no two label lines of the output of a class carry the same name.
C6_LabelsUnique ==
    \A i, j \in 1..Len(code) :
        (i < j /\ IsLabel(code[i]) /\ IsLabel(code[j])) => code[i][2] # code[j][2]

\* C6 witness: a finished class whose first subroutine nests and sequences
\* if and while statements and whose second holds a while: eight labels or
\* more.
C6_Witness ==
    /\ pc = "done"
    /\ Cardinality({i \in 1..Len(code) : IsLabel(code[i])}) >= 8
    /\ \E i \in 1..Len(code) : code[i] = <<"label", "IF_END1">>
    /\ \E i \in 1..Len(code) : code[i] = <<"label", "WHILE_EXP0">>

RECURSIVE Subtrees(_)
\* tree and every node under it
Subtrees(tree) ==
    {tree} \cup UNION {Subtrees(tree.nodes[i]) : i \in 1..Len(tree.nodes)}

IsControl(tree) ==
    IsNamed(tree, "whileStatement") \/ IsNamed(tree, "ifStatement")

RECURSIVE CountControl(_), CountControlIn(_, _)
\* the number of if and while statements in tree, itself included
CountControl(tree) ==
    (IF IsControl(tree) THEN 1 ELSE 0) + CountControlIn(tree.nodes, 1)

CountControlIn(nodes, i) ==
    IF i > Len(nodes) THEN 0
    ELSE CountControl(nodes[i]) + CountControlIn(nodes, i + 1)

LabelFamilies(tree) ==
    IF IsNamed(tree, "whileStatement") THEN {"WHILE_EXP", "WHILE_END"}
    ELSE {"IF_TRUE", "IF_FALSE", "IF_END"}

AllFamilies == {"WHILE_EXP", "WHILE_END", "IF_TRUE", "IF_FALSE", "IF_END"}

\* the names in lines: of its labels and of its jumps
NamesIn(lines) ==
    {lines[i][2] : i \in {j \in 1..Len(lines) : IsLabel(lines[j]) \/ IsJump(lines[j])}}

\* The lines the statement tree emits when it draws the id k: every jump has
\* one label among them, the names of id k are of the statement's own kind,
\* and every other name carries one of the ids the statements nested in it
\* draw after k.
OwnsItsLabels(w, tree, k) ==
    LET lines == VmWriter_build([w EXCEPT !.current_id = k], tree).result IN
    /\ \A i \in 1..Len(lines) :
          IsJump(lines[i]) => LabelCount(lines, lines[i][2]) = 1
    /\ NamesIn(lines) \cap {f \o ToString(k) : f \in AllFamilies}
          \subseteq {f \o ToString(k) : f \in LabelFamilies(tree)}
    /\ NamesIn(lines)
          \subseteq {f \o ToString(j) : f \in AllFamilies,
                                        j \in k..(k + CountControl(tree) - 1)}

\* C7: every goto and if-goto of the output of a class has exactly one label
\* line of its name there, emitted by the if or while statement that
\* emitted the jump.
C7_BalancedBranches ==
    /\ \A i \in 1..Len(code) :
          IsJump(code[i]) => LabelCount(code, code[i][2]) = 1
    /\ pc = "done" =>
          \A tree \in {t \in Subtrees(root) : IsControl(t)} :
              \A k \in 0..(MaxStmts + 1) : OwnsItsLabels(writer, tree, k)

\* C7 witness: a finished class in which an if with an else is nested in a
\* while: the jumps of the if lie between the label and the back jump of the
\* while.
C7_Witness ==
    /\ pc = "done"
    /\ \E i, j, k, l \in 1..Len(code) :
          /\ i < j /\ j < k /\ k < l
          /\ code[i] = <<"label", "WHILE_EXP0">>
          /\ code[j] = <<"if-goto", "IF_TRUE1">>
          /\ code[k] = <<"goto", "IF_END1">>
          /\ code[l] = <<"goto", "WHILE_EXP0">>

\* x is a contiguous part of y
IsInfix(x, y) ==
    \E i \in 0..(Len(y) - Len(x)) : SubSeq(y, i + 1, i + Len(x)) = x

\* a subroutine call: a do statement, or a term "id . id ( list )" or
\* "id ( list )"
IsCall(tree) ==
    \/ IsNamed(tree, "doStatement")
    \/ IsNamed(tree, "term") /\ Len(tree.nodes) = 6
    \/ IsNamed(tree, "term") /\ Len(tree.nodes) = 4 /\ Value(tree, 2) = "("

\* the receiver ("" where the call is unqualified), the name and the
\* expressionList of a call
CallParts(tree) ==
    LET first == IF IsNamed(tree, "doStatement") THEN 2 ELSE 1
        qualified == Value(tree, first + 1) = "."
    IN  [receiver |-> IF qualified THEN Value(tree, first) ELSE "",
         name |-> Value(tree, IF qualified THEN first + 2 ELSE first),
         list |-> tree.nodes[IF qualified THEN first + 4 ELSE first + 2]]

\* the expressions of an expressionList, which is Expr (, Expr)*
ArgumentsOf(list) ==
    [k \in 1..((Len(list.nodes) + 1) \div 2) |-> list.nodes[2 * k - 1]]

\* the code of the arguments, each built on its own, left to right
ArgumentsCode(w, list) ==
    Flatten([k \in 1..Len(ArgumentsOf(list)) |->
                VmWriter_build(w, ArgumentsOf(list)[k]).result])

\* the lines stated for a call
StatedCall(w, tree) ==
    LET call == CallParts(tree)
        n == Len(ArgumentsOf(call.list))
        symbol == SymbolTable_get(w.symbol_table, call.receiver)
    IN  IF call.receiver = ""
        THEN <<(<<"push", "pointer", "0">>)>>
             \o ArgumentsCode(w, call.list)
             \o <<(<<"call", w.class_name \o "." \o call.name, ToString(n + 1)>>)>>
        ELSE IF symbol # None
        THEN <<(<<"push", StatedSegment(symbol[1].symbol_type),
                  ToString(symbol[1].position)>>)>>
             \o ArgumentsCode(w, call.list)
             \o <<(<<"call", symbol[1].kind \o "." \o call.name, ToString(n + 1)>>)>>
        ELSE ArgumentsCode(w, call.list)
             \o <<(<<"call", call.receiver \o "." \o call.name, ToString(n)>>)>>

\* the generator emits the stated lines for the call tree: they are what
\* build returns for it (followed by "pop temp 0" for a do statement) and
\* they stand in the output
EmitsStatedCall(tree) ==
    /\ IF IsNamed(tree, "doStatement")
       THEN VmWriter_build(writer, tree).result
                = StatedCall(writer, tree) \o <<(<<"pop", "temp", "0">>)>>
       ELSE VmWriter_build(writer, tree).result = StatedCall(writer, tree)
    /\ IsInfix(StatedCall(writer, tree), code)

\* the calls of the subroutine the generator has just walked
CallsBuilt == {t \in Subtrees(LastBuilt) : IsCall(t)}

\* C8: for a call v.m(a1..an) where v is in the subroutine's table the
\* generator emits "push <segment> <slot>" of v, the code of a1..an left to
\* right and "call <type of v>.m n+1"; for C.f(a1..an) where C is not in the
\* table it emits the code of a1..an and "call C.f n".
C8_QualifiedCall ==
    Built =>
        \A tree \in CallsBuilt :
            CallParts(tree).receiver # "" => EmitsStatedCall(tree)

\* C9: for a call name(a1..an), in a do statement or in a term, in a
\* subroutine of any kind, the generator emits "push pointer 0", the code
\* of a1..an left to right and "call <class>.name n+1".
C9_UnqualifiedCall ==
    Built =>
        \A tree \in CallsBuilt :
            CallParts(tree).receiver = "" => EmitsStatedCall(tree)

\* C9 witness: a walked subroutine holding an unqualified call in a term
\* with MaxArgs arguments.
C9_Witness ==
    /\ Built
    /\ \E tree \in CallsBuilt :
          /\ IsNamed(tree, "term")
          /\ CallParts(tree).receiver = ""
          /\ Len(ArgumentsOf(CallParts(tree).list)) = MaxArgs

\* the number of names the class declares as field, read off the tree
RECURSIVE FieldsDeclared(_, _)
FieldsDeclared(tree, i) ==
    IF i > Len(tree.nodes) THEN 0
    ELSE (IF IsNamed(tree.nodes[i], "classVarDec")
             /\ Value(tree.nodes[i], 1) = "field"
          THEN Len(VarDecNames(tree.nodes[i])) ELSE 0)
         + FieldsDeclared(tree, i + 1)

\* the lines stated to follow the function header
StatedPrologue(dec) ==
    CASE Value(dec, 1) = "constructor" ->
            << <<"push", "constant", ToString(FieldsDeclared(root, 1))>>,
               <<"call", "Memory.alloc", "1">>,
               <<"pop", "pointer", "0">> >>
      [] Value(dec, 1) = "method" ->
            << <<"push", "argument", "0">>, <<"pop", "pointer", "0">> >>
      [] OTHER -> <<>>

\* the statements node of a subroutineDec: the last but one of its body
StatementsOf(dec) == dec.nodes[7].nodes[Len(dec.nodes[7].nodes) - 1]

\* the code of the statements of the subroutine just walked: the ids its
\* if and while statements drew are handed back first
StatementsCode ==
    VmWriter_build(
        [writer EXCEPT !.current_id = @ - CountControl(LastBuilt)],
        StatementsOf(LastBuilt)).result

\* the index in the output of the header of the subroutine just walked
LastHeader ==
    CHOOSE i \in 1..Len(code) :
        /\ code[i][1] = "function"
        /\ \A j \in (i + 1)..Len(code) : code[j][1] # "function"

\* C10: after the function header a constructor emits "push constant N",
\* "call Memory.alloc 1", "pop pointer 0" with N the number of fields of the
\* class, a method emits "push argument 0", "pop pointer 0", and a function
\* nothing: the code of the statements follows.
C10_Prologue ==
    Built =>
        SubSeq(code, LastHeader + 1, Len(code))
            = StatedPrologue(LastBuilt) \o StatementsCode

\* C10 witness: a walked constructor of a class with MaxFields fields and a
\* static, with parameters and locals of its own.
C10_Witness ==
    /\ Built
    /\ Value(LastBuilt, 1) = "constructor"
    /\ FieldsDeclared(root, 1) = MaxFields
    /\ OfCategory(writer.class_symbol_table, "StaticType") # <<>>
    /\ DeclaredParameters(LastBuilt) # <<>>
    /\ DeclaredLocals(LastBuilt) # <<>>

\* C11: the number in the header "function <class>.<name> <n>" of every
\* subroutine is the number of Local symbols of its table, which is the
\* number of names its var declarations declare, each name of a list counted
\* once, whatever the fields, statics and parameters are.
C11_LocalsInHeader ==
    Built =>
        /\ code[LastHeader]
              = <<"function", writer.class_name \o "." \o Value(LastBuilt, 3),
                  ToString(Len(DeclaredLocals(LastBuilt)))>>
        /\ Len(OfCategory(writer.symbol_table, "Local"))
              = Len(DeclaredLocals(LastBuilt))

\* C11 witness: a walked subroutine with a var declaration of two names and
\* one of a single name, in a class with a field and a static, with a
\* parameter.
C11_Witness ==
    /\ Built
    /\ Len(DeclaredLocals(LastBuilt)) = 3
    /\ Len(SelectSeq(LastBuilt.nodes[7].nodes,
                     LAMBDA n : IsNamed(n, "varDec"))) = 2
    /\ OfCategory(writer.class_symbol_table, "Field") # <<>>
    /\ OfCategory(writer.class_symbol_table, "StaticType") # <<>>
    /\ DeclaredParameters(LastBuilt) # <<>>

\* the instruction stated for a binary operator
StatedOp(v) ==
    CASE v = "+" -> <<"add">>
      [] v = "-" -> <<"sub">>
      [] v = "*" -> <<"call", "Math.multiply", "2">>
      [] v = "/" -> <<"call", "Math.divide", "2">>
      [] v = "&" -> <<"and">>
      [] v = "|" -> <<"or">>
      [] v = "<" -> <<"lt">>
      [] v = ">" -> <<"gt">>
      [] v = "=" -> <<"eq">>

\* the lines build returns for a node under the table of the subroutine
\* just walked
CodeOf(tree) == VmWriter_build(writer, tree).result

\* code(t0), code(t1), vm(op1), ..., code(tn), vm(opn) for the expression
\* t0 op1 t1 ... opn tn, whose nodes are t0, op1, t1, ..., opn, tn
StatedExpression(tree) ==
    CodeOf(tree.nodes[1])
    \o Flatten([k \in 1..((Len(tree.nodes) - 1) \div 2) |->
                   CodeOf(tree.nodes[2 * k + 1])
                   \o <<StatedOp(Value(tree, 2 * k))>>])

IsGroup(tree) ==
    /\ IsNamed(tree, "term") /\ Len(tree.nodes) = 3
    /\ tree.nodes[1].item # None /\ Value(tree, 1) = "("

\* C12: the code of t0 op1 t1 ... opn tn is code(t0), code(t1), vm(op1),
\* ..., code(tn), vm(opn), with the stated instruction of each operator
\* directly after the code of its right operand, whatever the operators are;
\* the code of ( e ) is the code of e.
C12_LeftToRight ==
    Built =>
        \A tree \in Subtrees(LastBuilt) :
            /\ IsNamed(tree, "expression") =>
                  /\ CodeOf(tree) = StatedExpression(tree)
                  /\ IsInfix(CodeOf(tree), code)
            /\ IsGroup(tree) => CodeOf(tree) = CodeOf(tree.nodes[2])

\* C12 witness: a walked subroutine with the expression 1 + a * 3, where
\* precedence would apply * first.
C12_Witness ==
    /\ Built
    /\ \E tree \in Subtrees(LastBuilt) :
          /\ IsNamed(tree, "expression") /\ Len(tree.nodes) = 5
          /\ Value(tree, 2) = "+" /\ Value(tree, 4) = "*"
          /\ IsInfix(<< <<"push", "constant", "1">>, <<"push", "argument", "0">>,
                        <<"add">>, <<"push", "constant", "3">>,
                        <<"call", "Math.multiply", "2">> >>, code)

IsArrayLet(tree) == IsNamed(tree, "letStatement") /\ Len(tree.nodes) = 8

\* the push of the symbol name: its slot is the symbol's (its segment is
\* the matter of C2)
IsPushOf(line, name) ==
    /\ Len(line) = 3 /\ line[1] = "push"
    /\ line[3] = ToString(SymbolTable_get(writer.symbol_table, name)[1].position)
    /\ line = SymbolTable_get_push(writer.symbol_table, name)[1]

\* C13: for let a[I] = E; the lines are the push of a, code(I), add, the
\* whole code(E), and after it pop temp 0, pop pointer 1, push temp 0,
\* pop that 0: the pop pointer 1 of the destination comes after every line
\* of code(E), also where E reads an array element.
C13_ArrayLetOrder ==
    Built =>
        \A tree \in Subtrees(LastBuilt) :
            IsArrayLet(tree) =>
                /\ IsPushOf(CodeOf(tree)[1], Value(tree, 2))
                /\ Tail(CodeOf(tree))
                      = CodeOf(tree.nodes[4]) \o << <<"add">> >>
                        \o CodeOf(tree.nodes[7])
                        \o << <<"pop", "temp", "0">>, <<"pop", "pointer", "1">>,
                              <<"push", "temp", "0">>, <<"pop", "that", "0">> >>
                /\ IsInfix(CodeOf(tree), code)

\* C13 witness: a walked let a[I] = E; whose E and whose I read array
\* elements, each with a pop pointer 1 of its own.
C13_Witness ==
    /\ Built
    /\ \E tree \in Subtrees(LastBuilt) :
          /\ IsArrayLet(tree)
          /\ \E i \in 1..Len(CodeOf(tree.nodes[7])) :
                CodeOf(tree.nodes[7])[i] = <<"pop", "pointer", "1">>
          /\ \E i \in 1..Len(CodeOf(tree.nodes[4])) :
                CodeOf(tree.nodes[4])[i] = <<"pop", "pointer", "1">>

\* the lines build returns for tree when current_id is k
CodeAt(tree, k) ==
    VmWriter_build([writer EXCEPT !.current_id = k], tree).result

LabelIds == 0..(MaxStmts + 1)

\* the lines stated for the while statement tree, "while ( c ) { b }", of
\* label id k; the statements of b draw the ids after k
StatedWhile(tree, k) ==
    << <<"label", "WHILE_EXP" \o ToString(k)>> >>
    \o CodeAt(tree.nodes[3], k + 1)
    \o << <<"not">>, <<"if-goto", "WHILE_END" \o ToString(k)>> >>
    \o CodeAt(tree.nodes[6], k + 1)
    \o << <<"goto", "WHILE_EXP" \o ToString(k)>>,
          <<"label", "WHILE_END" \o ToString(k)>> >>

\* C14: the lines of a while statement of label id k are label WHILE_EXPk,
\* the code of the condition, not, if-goto WHILE_ENDk, the code of the body,
\* goto WHILE_EXPk, label WHILE_ENDk, also where the body nests if and while
\* statements.
C14_WhileShape ==
    Built =>
        \A tree \in Subtrees(LastBuilt) :
            IsNamed(tree, "whileStatement") =>
                /\ \A k \in LabelIds : CodeAt(tree, k) = StatedWhile(tree, k)
                /\ \E k \in LabelIds : IsInfix(StatedWhile(tree, k), code)

\* C14 witness: a walked while statement whose body nests a while that
\* nests an if.
C14_Witness ==
    /\ Built
    /\ \E tree \in Subtrees(LastBuilt) :
          /\ IsNamed(tree, "whileStatement")
          /\ CountControl(tree) = 3
          /\ \E inner \in Subtrees(tree.nodes[6]) : IsNamed(inner, "ifStatement")
          /\ IsInfix(StatedWhile(tree, 0), code)

\* the lines stated for the if statement tree, "if ( c ) { t }" with or
\* without "else { e }", of label id k; the statements of t draw the ids
\* after k and those of e the ids after them
StatedIf(tree, k) ==
    CodeAt(tree.nodes[3], k + 1)
    \o << <<"if-goto", "IF_TRUE" \o ToString(k)>>,
          <<"goto", "IF_FALSE" \o ToString(k)>>,
          <<"label", "IF_TRUE" \o ToString(k)>> >>
    \o CodeAt(tree.nodes[6], k + 1)
    \o (IF Len(tree.nodes) = 7
        THEN << <<"label", "IF_FALSE" \o ToString(k)>> >>
        ELSE << <<"goto", "IF_END" \o ToString(k)>>,
                <<"label", "IF_FALSE" \o ToString(k)>> >>
             \o CodeAt(tree.nodes[10], k + 1 + CountControl(tree.nodes[6]))
             \o << <<"label", "IF_END" \o ToString(k)>> >>)

HasElse(tree) == Len(tree.nodes) = 11 /\ Value(tree, 8) = "else"

\* C15: the lines of an if statement of label id k are the code of the
\* condition, if-goto IF_TRUEk, goto IF_FALSEk, label IF_TRUEk, the code of
\* the then-branch and then, without else, label IF_FALSEk and no line of
\* IF_ENDk, with else goto IF_ENDk, label IF_FALSEk, the code of the
\* else-branch, label IF_ENDk, also where a branch nests if and while
\* statements.
C15_IfShape ==
    Built =>
        \A tree \in Subtrees(LastBuilt) :
            IsNamed(tree, "ifStatement") =>
                /\ Len(tree.nodes) = 7 \/ HasElse(tree)
                /\ \A k \in LabelIds :
                      /\ CodeAt(tree, k) = StatedIf(tree, k)
                      /\ ~HasElse(tree) =>
                            "IF_END" \o ToString(k) \notin NamesIn(CodeAt(tree, k))
                /\ \E k \in LabelIds : IsInfix(StatedIf(tree, k), code)

\* C15 witness: a walked if statement with an else, whose then-branch nests
\* a while and whose else-branch nests an if without else.
C15_Witness ==
    /\ Built
    /\ \E tree \in Subtrees(LastBuilt) :
          /\ IsNamed(tree, "ifStatement") /\ HasElse(tree)
          /\ \E inner \in Subtrees(tree.nodes[6]) :
                IsNamed(inner, "whileStatement")
          /\ \E inner \in Subtrees(tree.nodes[10]) :
                IsNamed(inner, "ifStatement") /\ ~HasElse(inner)
          /\ IsInfix(StatedIf(tree, 0), code)

\* the nodes of tree at the indexes of values that exist are the terminals
\* values names there
AreTerminals(tree, values) ==
    \A i \in DOMAIN values \cap 1..Len(tree.nodes) :
        values[i] # "" => IsTerminal(tree.nodes[i], values[i])

\* C20: where the grammar requires a keyword or a symbol, the token the
\* parser has accepted is that Keyword or Symbol token: class and { of the
\* class, its closing }, and if ( ) { } else { } of every if statement; a
\* String token of the same text is not accepted.
C20_TerminalsByKind ==
    /\ AreTerminals(root, <<"class", "", "{">>)
    /\ pc \in {"parsed", "class", "done"} =>
          IsTerminal(root.nodes[Len(root.nodes)], "}")
    /\ \A tree \in Subtrees(root) :
          IsNamed(tree, "ifStatement") =>
              AreTerminals(tree, <<"if", "(", "", ")", "{", "", "}",
                                   "else", "{", "", "}">>)

(***************************************************************************)
(* Properties of the scanner and of the token stream, checked under        *)
(* SpecLex.                                                                *)
(***************************************************************************)
AllDigits(chars) ==
    chars # <<>> /\ \A i \in 1..Len(chars) : chars[i] \in Digits

RECURSIVE NumberOf(_)
\* the number a text of digits writes
NumberOf(chars) ==
    IF chars = <<>> THEN 0
    ELSE 10 * NumberOf(SubSeq(chars, 1, Len(chars) - 1))
         + DigitValue(chars[Len(chars)])

\* C16: a lexeme of digits only is emitted as an Integer token if and only
\* if its value is in 0..32767; above 32767 tokenization aborts and no
\* token list is returned.
C16_IntegerRange ==
    AllDigits(lex_code) =>
        /\ lex_pc = "ready" =>
              /\ NumberOf(lex_code) <= 32767
              /\ lex_tokenizer.tokens
                    = <<TokenItem_new(Text(lex_code), "Integer")>>
        /\ lex_pc = "panic" =>
              /\ NumberOf(lex_code) > 32767
              /\ lex_tokenizer.tokens = <<>>
        /\ lex_pc \in {"scan", "ready", "panic"}

\* C16 witness: the text 32767 has become one Integer token.
C16_Witness ==
    /\ lex_pc = "ready"
    /\ lex_code = <<"3", "2", "7", "6", "7">>
    /\ lex_tokenizer.tokens = <<TokenItem_new("32767", "Integer")>>

QuoteCount(chars) == Cardinality({i \in 1..Len(chars) : chars[i] = Quote})

\* C17: for every text in which a quote opens a string that no second quote
\* closes before the end of the text (the number of its quotes is odd),
\* whatever follows the opening quote, tokenization aborts: no token list
\* is returned.
C17_UnterminatedStringAborts ==
    QuoteCount(lex_code) % 2 = 1 => lex_pc # "ready"

\* C18: a pass of the scanner's loop aborts where the char is a quote and
\* an Identifier or Integer token is running, or where an Integer token is
\* running and the char is no digit, space or symbol; a digit met while an
\* Identifier is running leaves the running token as it is, and a text of a
\* letter followed by letters and digits becomes one Identifier token.
C18_InvalidCharAborts ==
    /\ [](/\ lex_pc = "panic" => lex_tokenizer.tokens = <<>>
          /\ (/\ lex_pc = "ready" /\ lex_code # <<>>
              /\ lex_code[1] = "a"
              /\ \A i \in 1..Len(lex_code) : lex_code[i] \in {"a"} \cup Digits)
             => lex_tokenizer.tokens
                   = <<TokenItem_new(Text(lex_code), "Identifier")>>)
    /\ [][(lex_pc = "scan" /\ lex_i < Len(lex_code)) =>
             /\ (/\ lex_code[lex_i + 1] = Quote
                 /\ lex_scan.current_type \in {"Identifier", "Integer"})
                => lex_pc' = "panic"
             /\ (/\ lex_scan.current_type = "Integer"
                 /\ lex_code[lex_i + 1] \notin Digits \cup {" "}
                 /\ ~is_symbol(lex_code[lex_i + 1]))
                => lex_pc' = "panic"
             /\ (/\ lex_scan.current_type = "Identifier"
                 /\ lex_code[lex_i + 1] \in Digits)
                => lex_pc' = "scan" /\ lex_scan' = lex_scan]_vars

\* C18 witness: the scanner has aborted at the letter of "1a..", before the
\* end of the text.
C18_Witness ==
    /\ lex_pc = "panic"
    /\ lex_i = 2 /\ Len(lex_code) > 2
    /\ SubSeq(lex_code, 1, 2) = <<"1", "a">>

\* C19: 0 <= cursor <= number of tokens; the token list stays the one the
\* Tokenizer was constructed with; peek_next and has_next leave the cursor
\* where it was; get_next returns the token at the cursor and adds 1 to the
\* cursor where cursor < number of tokens, and returns none and leaves the
\* cursor where it was otherwise; reset sets the cursor to 0.
C19_Cursor ==
    /\ lex_tokenizer.cursor \in 0..Len(lex_tokenizer.tokens)
    /\ lex_pc = "ready" => lex_tokenizer.tokens = lex_scan.result
    /\ lex_ret.op \in {"peek_next", "has_next"} => lex_tokenizer = lex_ret.before
    /\ lex_ret.op = "get_next" =>
          /\ lex_tokenizer.tokens = lex_ret.before.tokens
          /\ IF lex_ret.before.cursor < Len(lex_ret.before.tokens)
             THEN /\ lex_ret.value
                        = Some(lex_ret.before.tokens[lex_ret.before.cursor + 1])
                  /\ lex_tokenizer.cursor = lex_ret.before.cursor + 1
             ELSE /\ lex_ret.value = None
                  /\ lex_tokenizer.cursor = lex_ret.before.cursor
    /\ lex_ret.op = "reset" =>
          /\ lex_tokenizer.cursor = 0
          /\ lex_tokenizer.tokens = lex_ret.before.tokens

\* C19 witness: get_next called with the cursor at the end of a list of two
\* tokens or more has returned none.
C19_Witness ==
    /\ lex_pc = "ready"
    /\ lex_ret.op = "get_next"
    /\ Len(lex_ret.before.tokens) >= 2
    /\ lex_ret.before.cursor = Len(lex_ret.before.tokens)
    /\ lex_ret.value = None
    /\ lex_tokenizer.cursor = Len(lex_tokenizer.tokens)

(***************************************************************************)
(* Properties of the parse tree, checked under Spec.                       *)
(***************************************************************************)
\* C23: every parameterList node the parser produces has 0 children or
\* 3p-1 children, p pairs Type Id with a "," leaf between two pairs: a list
\* with a missing comma, a comma before the first pair or a comma after the
\* last pair is a fatal error and gives no node.
C23_ParameterListShape ==
    \A i \in 1..Len(root.nodes) :
        IsNamed(root.nodes[i], "subroutineDec") =>
            IsParameterList(root.nodes[i].nodes[5])

RECURSIVE Leaves(_), LeavesIn(_, _)
\* the tokens of the leaves of tree, depth first and left to right
Leaves(tree) ==
    IF tree.item # None THEN <<tree.item[1]>> ELSE LeavesIn(tree.nodes, 1)

LeavesIn(nodes, i) ==
    IF i > Len(nodes) THEN <<>>
    ELSE Leaves(nodes[i]) \o LeavesIn(nodes, i + 1)

Parsed == pc \in {"parsed", "class", "done"}

\* C25: after a successful parse the leaves of the tree, read depth first
\* and left to right, are the tokens the parser consumed, those at the
\* positions 0 to cursor-1 of the stream, in stream order, each once and
\* the punctuation included.
C25_LeavesAreConsumed ==
    Parsed => Leaves(root) = SubSeq(stream.tokens, 1, stream.cursor)

\* C25 witness: a parsed class with a subroutine of parameters and locals
\* whose statements hold a group in parentheses and a call with an argument
C25_Witness ==
    /\ pc = "parsed"
    /\ stream.cursor = Len(stream.tokens)
    /\ \E tree \in Subtrees(root) : IsGroup(tree)
    /\ \E tree \in Subtrees(root) :
          IsNamed(tree, "expressionList") /\ Len(tree.nodes) > 0
    /\ \E tree \in Subtrees(root) : IsNamed(tree, "varDec")
    /\ \E tree \in Subtrees(root) :
          IsNamed(tree, "parameterList") /\ Len(tree.nodes) > 0

\* C26: for every subroutineDec node the symbol table the generator
\* rebuilds from the classVarDec children of the class and the parameterList
\* and varDec children of the subroutine has the symbols of the table the
\* parser attached to the node: the same names, categories, types and
\* slots, in the same order.
C26_GeneratorRebuildsTable ==
    Built =>
        /\ LastBuilt.symbol_table # None
        /\ writer.symbol_table.symbols = LastBuilt.symbol_table[1].symbols

RECURSIVE Controls(_), ControlsIn(_, _)
\* the if and while statements of tree in source order: a statement before
\* the statements nested in it and before the statements that follow it
Controls(tree) ==
    (IF IsControl(tree) THEN <<tree>> ELSE <<>>) \o ControlsIn(tree.nodes, 1)

ControlsIn(nodes, i) ==
    IF i > Len(nodes) THEN <<>>
    ELSE Controls(nodes[i]) \o ControlsIn(nodes, i + 1)

IsPlain(tree) ==
    \/ IsNamed(tree, "letStatement") \/ IsNamed(tree, "doStatement")
    \/ IsNamed(tree, "returnStatement")

\* build leaves the counter k of w as it is after the statement tree
CounterAfter(w, tree, k) ==
    VmWriter_build([w EXCEPT !.current_id = k], tree).w.current_id

\* the j-th if or while statement of tree, in source order, has emitted its
\* lines among emitted with the id first + j - 1
NumberedInOrder(w, tree, first, emitted) ==
    \A j \in 1..Len(Controls(tree)) :
        IsInfix(VmWriter_build([w EXCEPT !.current_id = first + j - 1],
                               Controls(tree)[j]).result,
                emitted)

\* C27: the label counter of a generator starts at 0, never decreases and
\* is not reset between the subroutines of the class; every if and while
\* statement takes the current value as its k and adds exactly 1, so the
\* statements of a subroutine carry consecutive ids in source order, an
\* enclosing statement a smaller id than the statements nested in it; let,
\* do and return statements leave the counter as it is.
C27_LabelCounter ==
    /\ [](pc \in {"start", "classVarDec", "subroutineDec", "parsed"} =>
            writer.current_id = 0)
    /\ [][/\ writer'.current_id >= writer.current_id
          /\ (pc = "class" /\ pc' = "class" /\ w_next_item' = w_next_item + 1) =>
                /\ writer'.current_id
                      = writer.current_id
                        + CountControl(root.nodes[w_next_item + 1])
                /\ NumberedInOrder(writer', root.nodes[w_next_item + 1],
                                   writer.current_id,
                                   SubSeq(code', Len(code) + 1, Len(code')))
                /\ \A tree \in Subtrees(root.nodes[w_next_item + 1]) :
                      \A k \in LabelIds :
                          /\ IsControl(tree) =>
                                CounterAfter(writer', tree, k)
                                   = k + CountControl(tree)
                          /\ IsPlain(tree) =>
                                CounterAfter(writer', tree, k) = k]_vars

\* C27 witness: a finished class whose first subroutine holds an if nested
\* in a while and a statement after them, and whose second subroutine has
\* drawn the id that follows
C27_Witness ==
    /\ pc = "done"
    /\ writer.current_id = 4
    /\ \E i, j, k, l \in 1..Len(code) :
          /\ i < j /\ j < k /\ k < l
          /\ code[i] = <<"label", "WHILE_EXP0">>
          /\ code[j] = <<"if-goto", "IF_TRUE1">>
          /\ code[k] = <<"label", "WHILE_END0">>
          /\ code[l] = <<"label", "WHILE_EXP3">>
    /\ \E i \in 1..Len(code) :
          code[i] \in {<<"label", "WHILE_EXP2">>, <<"label", "IF_TRUE2">>}

\* the number n of the word ToString(n) of a call line
ArgCount(word) == CHOOSE n \in 0..(MaxArgs + 1) : ToString(n) = word

\* the lines the stack effect is stated for
IsCounted(line) ==
    line[1] \in {"push", "pop", "add", "sub", "and", "or", "lt", "gt", "eq",
                 "neg", "not", "call", "if-goto", "label", "goto"}

\* the stated effect of a line on the depth of the stack
Effect(line) ==
    CASE line[1] = "push" -> 1
      [] line[1] = "pop" -> -1
      [] line[1] \in {"add", "sub", "and", "or", "lt", "gt", "eq"} -> -1
      [] line[1] \in {"neg", "not"} -> 0
      [] line[1] = "call" -> 1 - ArgCount(line[3])
      [] line[1] = "if-goto" -> -1
      [] line[1] \in {"label", "goto"} -> 0

RECURSIVE Depth(_, _)
\* the depth after the first n of lines, the starting depth being 0
Depth(lines, n) ==
    IF n = 0 THEN 0 ELSE Depth(lines, n - 1) + Effect(lines[n])

AllCounted(lines) == \A i \in 1..Len(lines) : IsCounted(lines[i])

PushesOne(lines) ==
    /\ Depth(lines, Len(lines)) = 1
    /\ \A n \in 0..Len(lines) : Depth(lines, n) >= 0

IsValue(tree) == IsNamed(tree, "term") \/ IsNamed(tree, "expression")

IsBalancedKind(tree) ==
    \/ IsNamed(tree, "letStatement") \/ IsNamed(tree, "doStatement")
    \/ IsNamed(tree, "whileStatement") \/ IsNamed(tree, "ifStatement")

\* C28: with the stated effect of every line, the lines of a term and of an
\* expression add 1 to the depth of the stack and no prefix of them goes
\* below the starting depth, and the lines of a let, do, while or if
\* statement leave the depth as it was.  The effect is stated for the lines
\* a term, an expression and these statements emit themselves; a statement
\* that nests a return statement holds the line return, for which no effect
\* is stated, and is left out.
C28_StackEffect ==
    Built =>
        \A tree \in Subtrees(LastBuilt) :
            /\ IsValue(tree) =>
                  AllCounted(CodeOf(tree)) /\ PushesOne(CodeOf(tree))
            /\ (IsBalancedKind(tree) /\ AllCounted(CodeOf(tree))) =>
                  Depth(CodeOf(tree), Len(CodeOf(tree))) = 0

\* C28 witness: a walked subroutine with a while whose condition holds a
\* call with two arguments, one of them a string constant, and whose body
\* assigns to an array element
C28_Witness ==
    /\ Built
    /\ \E tree \in Subtrees(LastBuilt) :
          /\ IsNamed(tree, "whileStatement")
          /\ AllCounted(CodeOf(tree))
          /\ IsInfix(<< <<"call", "String.appendChar", "2">>,
                        <<"push", "argument", "0">>, <<"neg">>,
                        <<"call", "Out.m", "2">>, <<"not">> >>, CodeOf(tree))
          /\ IsInfix(<< <<"pop", "pointer", "1">>, <<"push", "temp", "0">>,
                        <<"pop", "that", "0">> >>, CodeOf(tree))

(***************************************************************************)
(* Properties of parse_file, checked under SpecFile.                       *)
(***************************************************************************)
\* ClassNode::build on a fresh stream of the tokens of the file
FreshParse == ClassNode_build(Tokenizer_new(file_tokenizer.tokens))

\* C21: ClassNode::build rewinds the cursor before it reads a token, so its
\* outcome, the tree or the fatal error, depends on the token list only:
\* from every cursor it returns what it returns on a fresh stream, and the
\* parse that follows the token dump, which left the cursor at the end,
\* gives the tree of the fresh stream or aborts as the fresh stream does.
C21_ParseFromStart ==
    /\ file_pc = "dumped" =>
          /\ file_tokenizer.cursor = Len(file_tokenizer.tokens)
          /\ \A c \in 0..Len(file_tokenizer.tokens) :
                ClassNode_build([file_tokenizer EXCEPT !.cursor = c]) = FreshParse
    /\ file_pc \in {"parsed", "done"} =>
          /\ FreshParse.ok
          /\ file_root = FreshParse.root
          /\ file_tokenizer = FreshParse.tokenizer
    /\ file_pc = "panic in ClassNode::build" => ~FreshParse.ok

\* C21 witness: a tree parsed after a dump that walked a stream of tokens
\* to its end
C21_Witness ==
    /\ file_pc = "parsed"
    /\ "T2.xml" \in written
    /\ Len(file_tokenizer.tokens) > 0
    /\ file_root.nodes # <<>>

\* the outcome of process_code: the fatal error or the tokens
Scanned(chars) ==
    [ok |-> process_code(chars).ok, result |-> process_code(chars).result]

\* the outcome a followed by the outcome b
ThenScanned(a, b) ==
    [ok |-> a.ok /\ b.ok, result |-> a.result \o b.result]

RECURSIVE ScannedApart(_)
\* the lines ls tokenized one by one, the token sequences concatenated
ScannedApart(ls) ==
    IF ls = <<>> THEN [ok |-> TRUE, result |-> <<>>]
    ELSE ThenScanned(Scanned(Head(ls)), ScannedApart(Tail(ls)))

SameTokens(a, b) == a.ok = b.ok /\ (a.ok => a.result = b.result)

\* C22: joining the cleaned lines with no separator is sound: tokenizing
\* the concatenation of the cleaned lines of a file gives the token sequence
\* that tokenizing each cleaned line apart and concatenating gives.
C22_JoinIsSound ==
    file_pc # "read" =>
        /\ clean_code = join(code_lines(file_content))
        /\ SameTokens(Scanned(clean_code),
                      ScannedApart(code_lines(file_content)))

\* C24: nothing is partially emitted: when the processing of a source file
\* has aborted with a fatal error of the tokenization or of the parse, no
\* output file of that source file has been written.
C24_NothingWrittenOnAbort ==
    file_pc \in {"panic in Tokenizer::new", "panic in ClassNode::build"} =>
        written = {}

\* the number of tokens of the given value among the first i tokens
CountOf(tokens, i, value) ==
    Cardinality({j \in 1..i : tokens[j].value = value})

\* the index of the token "}" that closes the first brace opened: the first
\* one up to which as many braces are closed as opened, 0 when there is none
ClassClose(tokens) ==
    LET closes == {i \in 1..Len(tokens) :
                      /\ tokens[i].value = "}"
                      /\ CountOf(tokens, i, "{") = CountOf(tokens, i, "}")}
    IN  IF closes = {} THEN 0
        ELSE CHOOSE i \in closes : \A j \in closes : i <= j

TrailingStreams == { Lex(p) : p \in TrailingPrograms }

\* C30: ClassNode::build reads no token after the brace that closes the
\* class: the cursor never passes that brace, after a successful build it is
\* the index just past it and that brace is the last child of the class, and
\* a class that parses still parses with tokens after it.
C30_StopsAtClassClose ==
    /\ ClassClose(stream.tokens) # 0
            => stream.cursor <= ClassClose(stream.tokens)
    /\ Parsed =>
            /\ stream.cursor = ClassClose(stream.tokens)
            /\ root.nodes[Len(root.nodes)].item
                    = Some(stream.tokens[stream.cursor])
    /\ stream.tokens \in TrailingStreams => pc # "panic"

\* C30: a class with a field and a method is parsed and the tokens of a
\* subroutine that follow its closing brace are left in the stream
C30_Witness ==
    /\ pc = "parsed"
    /\ Len(root.nodes) = 6
    /\ stream.cursor + 9 = Len(stream.tokens)
    /\ stream.tokens[stream.cursor + 1].value = "function"

(***************************************************************************)
(* The tokens of a text, checked under SpecLex.                            *)
(***************************************************************************)
IsWordChar(c) == c # " " /\ c # Quote /\ ~is_symbol(c)

RECURSIVE WordEnd(_, _)
\* the index of the last char of the run of word chars that chars[i] is in
WordEnd(chars, i) ==
    IF i < Len(chars) /\ IsWordChar(chars[i + 1]) THEN WordEnd(chars, i + 1)
    ELSE i

\* the token stated for a run of word chars
StatedWord(word) ==
    IF AllDigits(word) THEN TokenItem_new(Text(word), "Integer")
    ELSE IF is_keyword(Text(word)) THEN TokenItem_new(Text(word), "Keyword")
    ELSE TokenItem_new(Text(word), "Identifier")

RECURSIVE StatedTokens(_, _)
\* the tokens stated for chars from index i on: none for a space, a Symbol
\* token for a symbol char, a String token with the text between the quote
\* at i and the next quote, an Integer, Keyword or Identifier token for a
\* run of other chars; NoToken where no second quote follows the quote at i
StatedTokens(chars, i) ==
    IF i > Len(chars) THEN <<>>
    ELSE IF chars[i] = " " THEN StatedTokens(chars, i + 1)
    ELSE IF is_symbol(chars[i])
    THEN <<TokenItem_new(chars[i], "Symbol")>> \o StatedTokens(chars, i + 1)
    ELSE IF chars[i] = Quote
    THEN IF FindFrom(chars, i + 1, <<Quote>>) = 0 THEN <<NoToken>>
         ELSE <<TokenItem_new(
                    Text(SubSeq(chars, i + 1,
                                FindFrom(chars, i + 1, <<Quote>>) - 1)),
                    "String")>>
              \o StatedTokens(chars, FindFrom(chars, i + 1, <<Quote>>) + 1)
    ELSE <<StatedWord(SubSeq(chars, i, WordEnd(chars, i)))>>
         \o StatedTokens(chars, WordEnd(chars, i) + 1)

\* C29: the tokens the scanner returns for a text are the stated ones: a
\* Symbol token is one symbol char; an Integer token a non-empty run of
\* digits; an Identifier or Keyword token a non-empty run of chars without
\* space, quote and symbol char; a String token the text between its two
\* quotes, the spaces and symbol chars in it kept and not split off; spaces
\* outside strings give no token.
C29_TokenShapes ==
    lex_pc = "ready" => lex_tokenizer.tokens = StatedTokens(lex_code, 1)

=============================================================================
